---- MODULE Spec2Model ----
(***************************************************************************)
(* Keelie, the Keel Toys customer-service responder                        *)
(* (src/assets/keelie/keelie_runtime.py).                                  *)
(*                                                                         *)
(* Texts are TLA+ strings, handled character by character with Len,       *)
(* SubSeq and \o.  Regular expressions are modelled by position-set       *)
(* combinators: a pattern element maps the set of positions at which a    *)
(* match may stand to the set of positions at which it may stand after    *)
(* the element; re.search succeeds iff the final set is non-empty.        *)
(* Position p stands before character p, so 1 is the start of the text    *)
(* and Len(t)+1 its end.  Typographic characters of the reply texts       *)
(* (curly quotes, bullets, pound sign, emoji) are written in ASCII.       *)
(***************************************************************************)
EXTENDS Integers, Sequences, FiniteSets, TLC

(***************************************************************************)
(* Characters                                                              *)
(***************************************************************************)
LowerChars == "abcdefghijklmnopqrstuvwxyz"
UpperChars == "ABCDEFGHIJKLMNOPQRSTUVWXYZ"
DigitChars == "0123456789"

CharSet(s) == {SubSeq(s, i, i) : i \in 1..Len(s)}

LowerLetters == CharSet(LowerChars)
UpperLetters == CharSet(UpperChars)
Digits == CharSet(DigitChars)
Letters == LowerLetters \cup UpperLetters
\* \s of the re module (ASCII part)
WS == {" ", "\t", "\n", "\r", "\f"}
\* \w of the re module (ASCII part)
WordChars == Letters \cup Digits \cup {"_"}

ToLowerMap == [c \in UpperLetters |->
                 LET i == CHOOSE k \in 1..26 : SubSeq(UpperChars, k, k) = c
                 IN  SubSeq(LowerChars, i, i)]
ToUpperMap == [c \in LowerLetters |->
                 LET i == CHOOSE k \in 1..26 : SubSeq(LowerChars, k, k) = c
                 IN  SubSeq(UpperChars, i, i)]

LowerCh(c) == IF c \in UpperLetters THEN ToLowerMap[c] ELSE c
UpperCh(c) == IF c \in LowerLetters THEN ToUpperMap[c] ELSE c

\* the character at position i, "" outside the text
Ch(t, i) == IF i >= 1 /\ i <= Len(t) THEN SubSeq(t, i, i) ELSE ""

Min2(a, b) == IF a <= b THEN a ELSE b

(***************************************************************************)
(* str methods                                                             *)
(***************************************************************************)
RECURSIVE LowerFrom(_, _)
LowerFrom(t, i) == IF i > Len(t) THEN "" ELSE LowerCh(Ch(t, i)) \o LowerFrom(t, i + 1)
\* str.lower()
Lower(t) == LowerFrom(t, 1)

RECURSIVE UpperFrom(_, _)
UpperFrom(t, i) == IF i > Len(t) THEN "" ELSE UpperCh(Ch(t, i)) \o UpperFrom(t, i + 1)
\* str.upper()
Upper(t) == UpperFrom(t, 1)

RECURSIVE TitleFrom(_, _)
TitleFrom(t, i) ==
    IF i > Len(t) THEN ""
    ELSE LET c == Ch(t, i)
             out == IF c \in Letters
                    THEN IF Ch(t, i - 1) \in Letters THEN LowerCh(c) ELSE UpperCh(c)
                    ELSE c
         IN  out \o TitleFrom(t, i + 1)
\* str.title()
Title(t) == TitleFrom(t, 1)

\* str.strip()
Strip(t) ==
    LET keep == {i \in 1..Len(t) : Ch(t, i) \notin WS}
    IN  IF keep = {} THEN ""
        ELSE LET lo == CHOOSE i \in keep : \A j \in keep : i <= j
                 hi == CHOOSE i \in keep : \A j \in keep : i >= j
             IN  SubSeq(t, lo, hi)

\* p in t
Contains(t, p) ==
    \E i \in 1..(Len(t) - Len(p) + 1) : SubSeq(t, i, i + Len(p) - 1) = p

\* t.startswith(p)
StartsWith(t, p) == Len(p) <= Len(t) /\ SubSeq(t, 1, Len(p)) = p

\* any(x in t for x in triggers), triggers a sequence of strings
AnyIn(t, triggers) == \E k \in 1..Len(triggers) : Contains(t, triggers[k])

RECURSIVE ReplaceFrom(_, _, _, _)
ReplaceFrom(t, i, p, r) ==
    IF i > Len(t) THEN ""
    ELSE IF i + Len(p) - 1 <= Len(t) /\ SubSeq(t, i, i + Len(p) - 1) = p
         THEN r \o ReplaceFrom(t, i + Len(p), p, r)
         ELSE Ch(t, i) \o ReplaceFrom(t, i + 1, p, r)
\* t.replace(p, r), p non-empty
Replace(t, p, r) == ReplaceFrom(t, 1, p, r)

RECURSIVE CollapseFrom(_, _, _)
CollapseFrom(t, i, prevWS) ==
    IF i > Len(t) THEN ""
    ELSE IF Ch(t, i) \in WS
         THEN (IF prevWS THEN "" ELSE " ") \o CollapseFrom(t, i + 1, TRUE)
         ELSE Ch(t, i) \o CollapseFrom(t, i + 1, FALSE)
\* re.sub(r"\s+", " ", t).strip()
CollapseWS(t) == Strip(CollapseFrom(t, 1, FALSE))

(***************************************************************************)
(* Regular-expression combinators                                          *)
(***************************************************************************)
AllPos(t) == 1..(Len(t) + 1)

IsWordAt(t, i) == Ch(t, i) \in WordChars
\* \b at position p
Boundary(t, p) == IsWordAt(t, p - 1) # IsWordAt(t, p)
Bnd(t, P) == {p \in P : Boundary(t, p)}

\* a literal string
Lit(t, P, w) ==
    {p + Len(w) : p \in {q \in P : q + Len(w) - 1 <= Len(t)
                                   /\ SubSeq(t, q, q + Len(w) - 1) = w}}
\* an alternation of literal strings (a set of strings)
LitAny(t, P, ws) == UNION {Lit(t, P, w) : w \in ws}

\* number of consecutive characters of S from position p on
RECURSIVE RunLen(_, _, _)
RunLen(t, p, S) == IF Ch(t, p) \in S THEN 1 + RunLen(t, p + 1, S) ELSE 0

\* [S]{lo,hi}
Rep(t, P, S, lo, hi) ==
    UNION {{p + n : n \in lo..Min2(hi, RunLen(t, p, S))} : p \in P}
\* [S]{lo,}
RepFrom(t, P, S, lo) == Rep(t, P, S, lo, Len(t))
\* [S]?
OptSet(t, P, S) == Rep(t, P, S, 0, 1)
\* (?:w)?
OptLit(t, P, w) == P \cup Lit(t, P, w)

(***************************************************************************)
(* Helpers of keelie_runtime                                               *)
(***************************************************************************)
CleanAllowed == LowerLetters \cup Digits \cup WS \cup {"&", "-"}

RECURSIVE CleanSubFrom(_, _)
CleanSubFrom(t, i) ==
    IF i > Len(t) THEN ""
    ELSE (IF Ch(t, i) \in CleanAllowed THEN Ch(t, i) ELSE " ") \o CleanSubFrom(t, i + 1)

\* faulty variant of clean_text: runs of whitespace are not collapsed
clean_text_keeps_runs(text) == Strip(CleanSubFrom(Lower(text), 1))

\* lower-case, every character outside [a-z0-9\s&-] to a space, runs of
\* whitespace to one space, strip
clean_text(text) == CollapseWS(CleanSubFrom(Lower(text), 1))

\* length of the longest common prefix of a[i..ahi] and b[j..bhi]
RECURSIVE CommonRun(_, _, _, _, _, _)
CommonRun(a, i, ahi, b, j, bhi) ==
    IF i > ahi \/ j > bhi \/ Ch(a, i) # Ch(b, j) THEN 0
    ELSE 1 + CommonRun(a, i + 1, ahi, b, j + 1, bhi)

\* SequenceMatcher.find_longest_match without junk: the longest block,
\* of those the one starting earliest in a, of those the one starting
\* earliest in b; <<i, j, k>> with k = 0 when nothing matches
find_longest_match(a, alo, ahi, b, blo, bhi) ==
    LET runs == {<<i, j, CommonRun(a, i, ahi, b, j, bhi)>> : i \in alo..ahi, j \in blo..bhi}
        pos  == {r \in runs : r[3] > 0}
    IN  IF pos = {} THEN <<alo, blo, 0>>
        ELSE CHOOSE r \in pos :
               \A s \in pos : \/ r[3] > s[3]
                              \/ r[3] = s[3] /\ r[1] < s[1]
                              \/ r[3] = s[3] /\ r[1] = s[1] /\ r[2] <= s[2]

\* sum of the sizes of SequenceMatcher.get_matching_blocks over
\* a[alo..ahi] and b[blo..bhi]
RECURSIVE MatchedChars(_, _, _, _, _, _)
MatchedChars(a, alo, ahi, b, blo, bhi) ==
    IF alo > ahi \/ blo > bhi THEN 0
    ELSE LET m == find_longest_match(a, alo, ahi, b, blo, bhi)
         IN  IF m[3] = 0 THEN 0
             ELSE m[3] + MatchedChars(a, alo, m[1] - 1, b, blo, m[2] - 1)
                       + MatchedChars(a, m[1] + m[3], ahi, b, m[2] + m[3], bhi)

\* SequenceMatcher(None, a, b).ratio() = 2.0 * matches / (len(a) + len(b)),
\* 1.0 when both are empty; kept as the fraction num/den
similarity(a, b) ==
    IF Len(a) + Len(b) = 0 THEN [num |-> 1, den |-> 1]
    ELSE [num |-> 2 * MatchedChars(a, 1, Len(a), b, 1, Len(b)), den |-> Len(a) + Len(b)]

\* faulty variant of RatioGE: the bound is exclusive (> written for >=)
RatioGE_exclusive(r, p, q) == r.num * q > p * r.den

\* r >= p/q and r > s on fractions with positive denominators
RatioGE(r, p, q) == r.num * q >= p * r.den
RatioGT(r, s) == r.num * s.den > s.num * r.den
ZeroRatio == [num |-> 0, den |-> 1]

\* Confidence thresholds 0.75 and 0.55, and the 0.60 of the choice reply
STOCK_HIGH == [p |-> 75, q |-> 100]
STOCK_MED == [p |-> 55, q |-> 100]
CHOICE_MIN == [p |-> 60, q |-> 100]

\* end positions of \b[A-Z]{1,5}-?[A-Z]{0,5}-?\d{2,4}\b started at position i
StockCodeEnds(u, i) ==
    Bnd(u, Rep(u, OptLit(u, Rep(u, OptLit(u, Rep(u, Bnd(u, {i}), UpperLetters, 1, 5),
                                         "-"), UpperLetters, 0, 5), "-"), Digits, 2, 4))

None == [some |-> FALSE, val |-> ""]
Some(v) == [some |-> TRUE, val |-> v]

\* re.findall(...)[0] on the upper-cased text, None without a match
extract_stock_code(text) ==
    LET u == Upper(text)
        starts == {i \in 1..Len(u) : StockCodeEnds(u, i) # {}}
    IN  IF starts = {} THEN None
        ELSE LET i == CHOOSE k \in starts : \A j \in starts : k <= j
                 e == CHOOSE k \in StockCodeEnds(u, i) : \A j \in StockCodeEnds(u, i) : k >= j
             IN  Some(SubSeq(u, i, e - 1))

DeliveryTerms == <<"arrive", "arrival", "delivery", "eta", "tracking", "track", "order",
                   "dispatch", "shipped">>
DeliveryPhrases == <<"where is my order", "track my order", "order status">>

is_delivery_question(text) ==
    LET t == clean_text(text)
    IN  (Contains(t, "when") /\ AnyIn(t, DeliveryTerms)) \/ AnyIn(t, DeliveryPhrases)

StockCodeTriggers == <<"product code", "stock code", "sku", "item code", "code for", "code of">>

is_stock_code_request(text) == AnyIn(clean_text(text), StockCodeTriggers)

JunkPhrases == <<"can you tell me", "could you tell me", "please", "what is", "whats",
                 "the product code", "product code", "stock code", "item code", "sku",
                 "code for", "code of">>
StopWords == {"of", "for", "a", "an", "the", "to", "me", "my"}

RECURSIVE ReplaceAllPhrases(_, _, _)
ReplaceAllPhrases(t, phrases, k) ==
    IF k > Len(phrases) THEN t
    ELSE ReplaceAllPhrases(Replace(t, phrases[k], " "), phrases, k + 1)

\* re.sub(r"\b(of|for|a|an|the|to|me|my)\b", " ", t)
RECURSIVE StopWordSubFrom(_, _)
StopWordSubFrom(t, i) ==
    IF i > Len(t) THEN ""
    ELSE LET ends == Bnd(t, LitAny(t, Bnd(t, {i}), StopWords))
         IN  IF ends # {}
             THEN " " \o StopWordSubFrom(t, CHOOSE e \in ends : TRUE)
             ELSE Ch(t, i) \o StopWordSubFrom(t, i + 1)

normalize_for_product_match(text) ==
    CollapseWS(StopWordSubFrom(ReplaceAllPhrases(clean_text(text), JunkPhrases, 1), 1))

MinimumOrderTriggers ==
    <<"minimum order", "minimum spend", "minimum purchase",
      "min order", "min spend", "order minimum", "minimum order price",
      "minimum value", "minimum order value", "minimum spend value",
      "minimum order amount", "minimum spend amount",
      "minimum basket", "minimum basket value",
      "minimum checkout", "minimum checkout value",
      "what is the minimum", "whats the minimum", "what's the minimum",
      "opening order minimum", "first order minimum", "repeat order minimum",
      "starting order", "trade minimum", "trade order minimum",
      "moq", "m o q", "minimum order quantity">>

is_minimum_order_question(text) == AnyIn(clean_text(text), MinimumOrderTriggers)

ProductionPhrases ==
    <<"where are your toys produced", "where are your toys made",
      "where are your toys manufactured", "where are the toys produced",
      "where are the toys made", "where are the toys manufactured",
      "where are they produced", "where are they made", "where are they manufactured">>
ProductionWords == <<"produced", "made", "manufactured">>

is_production_question(text) ==
    LET t == clean_text(text)
    IN  \/ AnyIn(t, ProductionPhrases)
        \/ Contains(t, "where") /\ (Contains(t, "toy") \/ Contains(t, "toys"))
                                /\ AnyIn(t, ProductionWords)

EcoTriggers == <<"eco", "eco friendly", "eco-friendly", "sustainable", "sustainability",
                 "environment", "environmentally friendly", "recycled", "recycle",
                 "recyclable", "plastic bottles", "fsc", "keeleco", "keel eco">>

is_eco_question(text) == AnyIn(clean_text(text), EcoTriggers)

Greetings == {"hi", "hello", "hey", "hiya", "yo", "good morning", "good afternoon",
              "good evening"}

is_greeting(text) ==
    LET t == clean_text(text)
    IN  t \in Greetings \/ \E g \in Greetings : StartsWith(t, g \o " ")

(***************************************************************************)
(* Privacy guardrail.  Patterns compiled with re.I are matched on the     *)
(* lower-cased text l with lower-case classes; the others on the text t.  *)
(***************************************************************************)
EmailLocal == LowerLetters \cup Digits \cup {".", "_", "%", "+", "-"}
EmailDomain == LowerLetters \cup Digits \cup {".", "-"}

\* \b[A-Z0-9._%+-]+@[A-Z0-9.-]+\.[A-Z]{2,}\b
EMAIL_RE(l) ==
    Bnd(l, RepFrom(l, Lit(l, RepFrom(l, Lit(l, RepFrom(l, Bnd(l, AllPos(l)), EmailLocal, 1),
                                            "@"), EmailDomain, 1), "."), LowerLetters, 2)) # {}

PhoneSep == WS \cup {"-"}

\* (?:(?:\+|00)\s?\d{1,3}[\s-]?)?(?:\(?\d{2,5}\)?[\s-]?)?\d[\d\s-]{7,}\d
PHONE_RE(t) ==
    LET pa == AllPos(t) \cup
              OptSet(t, Rep(t, OptSet(t, LitAny(t, AllPos(t), {"+", "00"}), WS), Digits, 1, 3),
                     PhoneSep)
        pb == pa \cup
              OptSet(t, OptLit(t, Rep(t, OptLit(t, pa, "("), Digits, 2, 5), ")"), PhoneSep)
    IN  Rep(t, RepFrom(t, Rep(t, pb, Digits, 1, 1), Digits \cup PhoneSep, 7), Digits, 1, 1) # {}

\* \b(?:GIR\s?0AA|(?:[A-Z]{1,2}\d{1,2}[A-Z]?\s?\d[A-Z]{2}))\b
UK_POSTCODE_RE(l) ==
    LET b0  == Bnd(l, AllPos(l))
        gir == Lit(l, OptSet(l, Lit(l, b0, "gir"), WS), "0aa")
        gen == Rep(l, Rep(l, OptSet(l, OptSet(l, Rep(l, Rep(l, b0, LowerLetters, 1, 2),
                                                     Digits, 1, 2), LowerLetters), WS),
                          Digits, 1, 1), LowerLetters, 2, 2)
    IN  Bnd(l, gir \cup gen) # {}

CueWords == {"order", "invoice", "account", "ref", "reference", "tracking", "awb",
             "consignment", "waybill", "dispatch", "delivery", "p.o.", "return", "rma"}

\* \b(order|invoice|account|ref|reference|tracking|track(?:ing)?\s*(?:no|number)?|
\*    awb|consignment|waybill|dispatch|delivery|purchase\s+order|po\s*number|p\.o\.|
\*    sales\s+order|so\s*number|return|rma)\b
SENSITIVE_CUE_RE(l) ==
    LET b0    == Bnd(l, AllPos(l))
        track == RepFrom(l, OptLit(l, Lit(l, b0, "track"), "ing"), WS, 0)
        alts  == LitAny(l, b0, CueWords)
                 \cup track \cup LitAny(l, track, {"no", "number"})
                 \cup Lit(l, RepFrom(l, Lit(l, b0, "purchase"), WS, 1), "order")
                 \cup Lit(l, RepFrom(l, Lit(l, b0, "po"), WS, 0), "number")
                 \cup Lit(l, RepFrom(l, Lit(l, b0, "sales"), WS, 1), "order")
                 \cup Lit(l, RepFrom(l, Lit(l, b0, "so"), WS, 0), "number")
    IN  Bnd(l, alts) # {}

RefChars == LowerLetters \cup Digits \cup {"-"}
AlnumChars == LowerLetters \cup Digits

\* \s*[:#]?\s*([A-Z0-9-]{n,})\b after the positions P
RefTail(l, P, n) ==
    Bnd(l, RepFrom(l, RepFrom(l, OptSet(l, RepFrom(l, P, WS, 0), {":", "#"}), WS, 0),
                   RefChars, n))

\* \b(?:order\s*)?#\s*([A-Z0-9-]{5,})\b
ORDER_HASH_RE(l) ==
    LET b0 == Bnd(l, AllPos(l))
        hd == b0 \cup RepFrom(l, Lit(l, b0, "order"), WS, 0)
    IN  Bnd(l, RepFrom(l, RepFrom(l, Lit(l, hd, "#"), WS, 0), RefChars, 5)) # {}

\* \b(?:inv|invoice)\s*[:#]?\s*([A-Z0-9-]{5,})\b
INVOICE_CODE_RE(l) == RefTail(l, LitAny(l, Bnd(l, AllPos(l)), {"inv", "invoice"}), 5) # {}

\* \b(?:po|p\.o\.|so|sales\s*order)\s*[:#]?\s*([A-Z0-9-]{4,})\b
PO_SO_RE(l) ==
    LET b0 == Bnd(l, AllPos(l))
        hd == LitAny(l, b0, {"po", "p.o.", "so"})
              \cup Lit(l, RepFrom(l, Lit(l, b0, "sales"), WS, 0), "order")
    IN  RefTail(l, hd, 4) # {}

\* \b1Z[0-9A-Z]{8,}\b
UPS_1Z_RE(l) == Bnd(l, RepFrom(l, Lit(l, Bnd(l, AllPos(l)), "1z"), AlnumChars, 8)) # {}
\* \b[A-Z0-9]{10,}\b
LONG_ALNUM_RE(l) == Bnd(l, RepFrom(l, Bnd(l, AllPos(l)), AlnumChars, 10)) # {}
\* \b\d{6,}\b
LONG_DIGITS_RE(t) == Bnd(t, RepFrom(t, Bnd(t, AllPos(t)), Digits, 6)) # {}

StreetWords == {"road", "rd", "street", "st", "lane", "ln", "avenue", "ave", "drive", "dr",
                "close", "cl", "way", "court", "ct", "crescent", "cres", "place", "pl",
                "park", "garden", "gardens", "grove", "terrace", "ter"}

\* \b(road|rd|street|...|gardens?|grove|terrace|ter)\b
STREET_WORD_RE(l) == Bnd(l, LitAny(l, Bnd(l, AllPos(l)), StreetWords)) # {}
\* \b\d{1,4}[A-Z]?\b  (compiled without re.I)
HOUSE_NUM_RE(t) == Bnd(t, OptSet(t, Rep(t, Bnd(t, AllPos(t)), Digits, 1, 4), UpperLetters)) # {}

\* faulty variant of contains_personal_info: the references count without
\* a cue word
contains_personal_info_uncued(text) ==
    LET t == text
        l == Lower(text)
    IN  IF Strip(t) = "" THEN FALSE
        ELSE \/ EMAIL_RE(l) \/ PHONE_RE(t) \/ UK_POSTCODE_RE(l)
             \/ HOUSE_NUM_RE(t) /\ STREET_WORD_RE(l)
             \/ ORDER_HASH_RE(l) \/ INVOICE_CODE_RE(l) \/ PO_SO_RE(l)
             \/ UPS_1Z_RE(l) \/ LONG_DIGITS_RE(t) \/ LONG_ALNUM_RE(l)

contains_personal_info(text) ==
    LET t == text
        l == Lower(text)
    IN  IF Strip(t) = "" THEN FALSE
        ELSE IF EMAIL_RE(l) THEN TRUE
        ELSE IF PHONE_RE(t) THEN TRUE
        ELSE IF UK_POSTCODE_RE(l) THEN TRUE
        ELSE IF HOUSE_NUM_RE(t) /\ STREET_WORD_RE(l) THEN TRUE
        ELSE IF SENSITIVE_CUE_RE(l)
             THEN \/ ORDER_HASH_RE(l) \/ INVOICE_CODE_RE(l) \/ PO_SO_RE(l)
                  \/ UPS_1Z_RE(l)
                  \/ LONG_DIGITS_RE(t)
                  \/ LONG_ALNUM_RE(l)
             ELSE FALSE

(***************************************************************************)
(* Bot identity, links and static texts                                    *)
(***************************************************************************)
BOT_NAME == "Keelie"
COMPANY_NAME == "Keel Toys"
CUSTOMER_SERVICE_URL == "https://www.keeltoys.com/contact-us/"

MIN_ORDER_FIRST == 500
MIN_ORDER_REPEAT == 250
PRODUCTION_INFO ==
    "Our toys are produced across a small number of trusted manufacturing partners:\n"
    \o "* 95% in China\n"
    \o "* 3% in Indonesia\n"
    \o "* 2% in Cambodia"
HELP_OVERVIEW ==
    "I can help with:\n"
    \o "* **Minimum order values** (e.g. \"minimum order value\")\n"
    \o "* **Stock codes / SKUs** (e.g. \"stock code for Polar Bear Plush 20cm\")\n"
    \o "* **Keeleco(R) sustainability & recycled materials**\n"
    \o "* **Where our toys are made**\n"
    \o "* **Delivery & tracking** (e.g. \"where is my order?\")\n"
    \o "* **Invoices** (e.g. \"download an invoice\")\n"
    \o "\n"
    \o "What would you like to ask?"
KEELECO_OVERVIEW ==
    "Keeleco(R) is our eco-focused soft toy range made using **100% recycled "
    \o "polyester**.\n"
    \o "\n"
    \o "Key facts:\n"
    \o "* The outer plush and inner fibre fill are made from **recycled plastic "
    \o "waste**.\n"
    \o "* As a guide, around **10 recycled 500ml bottles** can produce enough fibre for "
    \o "an **18cm** toy.\n"
    \o "* Our Keel logo + hangtags use **FSC card** and are attached with **cotton**.\n"
    \o "* Shipping cartons are recycled and sealed with **paper tape**.\n"
    \o "* Keeleco is made in an **ethically audited** factory.\n"
    \o "\n"
    \o "If you tell me which Keeleco sub-range you mean (e.g. *Keeleco Dinosaurs*), I "
    \o "can share details."
privacy_warning ==
    "For your privacy, please don't share personal or account details here (such as "
    \o "email addresses, phone numbers, delivery addresses, or order/invoice "
    \o "references).\n"
    \o "\n"
    \o "Our customer service team can help you securely here:\n"
    \o CUSTOMER_SERVICE_URL
minimum_order_response ==
    "Our minimum order values are:\n"
    \o "* GBP "
    \o ToString(MIN_ORDER_FIRST)
    \o " for first-time buyers\n"
    \o "* GBP "
    \o ToString(MIN_ORDER_REPEAT)
    \o " for repeat buyers\n"
    \o "\n"
    \o "If you're unsure whether you qualify as a first-time or repeat buyer, our "
    \o "customer service team can help:\n"
    \o CUSTOMER_SERVICE_URL
fallback_response ==
    "I'm not able to help with that just now.\n"
    \o "\n"
    \o "Right now I *can* help with:\n"
    \o "* **Minimum order values** (try: \"What's the minimum order value?\")\n"
    \o "* **Stock codes / SKUs** (try: \"Stock code for Polar Bear Plush 20cm\")\n"
    \o "* **Keeleco(R) recycled materials & sustainability** (try: \"Tell me about "
    \o "Keeleco\")\n"
    \o "* **Where our toys are made** (try: \"Where are your toys produced?\")\n"
    \o "* **Delivery & tracking guidance** (try: \"How do I track my order?\")\n"
    \o "* **Invoices** (try: \"How do I download an invoice?\")\n"
    \o "\n"
    \o "Which of those do you need?"
collections_overview ==
    "Here are our main collections/ranges:\n"
    \o "\n"
    \o "Keeleco(R) sub-ranges:\n"
    \o "* Keeleco Adoptable World\n"
    \o "* Keeleco Arctic & Sealife\n"
    \o "* Keeleco Baby\n"
    \o "* Keeleco Botanical Garden\n"
    \o "* Keeleco British Wildlife & Farm\n"
    \o "* Keeleco Collectables\n"
    \o "* Keeleco Dinosaurs\n"
    \o "* Keeleco Enchanted World\n"
    \o "* Keeleco Handpuppets\n"
    \o "* Keeleco Jungle Cats\n"
    \o "* Keeleco Monkeys & Apes\n"
    \o "* Keeleco Pets\n"
    \o "* Keeleco Pink\n"
    \o "* Keeleco Snackies\n"
    \o "* Keeleco Teddies\n"
    \o "* Keeleco Wild\n"
    \o "\n"
    \o "Other collections:\n"
    \o "* Love To Hug\n"
    \o "* Motsu\n"
    \o "* Pippins\n"
    \o "* Pugsley & Friends\n"
    \o "* Seasonal\n"
    \o "* Signature Cuddle Puppies\n"
    \o "* Signature Cuddle Teddies\n"
    \o "* Signature Cuddle Wild\n"
    \o "* Signature Forever Puppies\n"
    \o "* Souvenir\n"
    \o "\n"
    \o "Tell me which one you're interested in and I'll share some facts about it."
PRODUCTION_REPLY ==
    PRODUCTION_INFO \o "\n\nIf you need more detail, please contact customer service:\n"
    \o CUSTOMER_SERVICE_URL
DELIVERY_REPLY ==
    "For delivery updates, please check your order confirmation email. It includes "
    \o "your estimated delivery date and tracking details if available."
GREETING_REPLY ==
    "Hello! (wave) I'm " \o BOT_NAME \o ", the " \o COMPANY_NAME
    \o " customer service assistant. How can I help you?"
NO_STOCK_ACCESS ==
    "I can't access stock codes right now (stock_codes.xlsx may be missing or unreadable). "
    \o "Please contact customer service here:\n" \o CUSTOMER_SERVICE_URL
NOT_SURE_NAME == "I'm not sure which product you mean. Could you please provide the product name?"
NOT_SURE_EXACT ==
    "I'm not sure which product you mean. Could you please provide the exact product name "
    \o "(and size, if relevant)?"
\* the server variant's reply to a stock code no row has; keelie_runtime.py
\* has no reply of the kind
CODE_NOT_FOUND(code) ==
    "I couldn't find a product with the stock code **" \o code
    \o "**. Please check the code and try again."
OFFER_HEADER ==
    "I found a few close matches - which one did you mean? Reply with **1**, **2**, or **3**:"

(***************************************************************************)
(* Collections / ranges, in the order of the table                         *)
(***************************************************************************)
COLLECTION_FACTS ==
  <<
    [key |-> "keeleco", title |-> "Keeleco(R)",
     facts |-> <<"Eco-focused range made from **100% recycled polyester** (plush + fibre fill).",
                "Around **10 recycled 500ml bottles** can produce enough fibre for an **18cm** toy (guide figure).",
                "**FSC card** hangtags attached with **cotton**.",
                "Recycled cartons sealed with **paper tape**.",
                "Made in an **ethically audited** factory.">>],
    [key |-> "keeleco adoptable world", title |-> "Keeleco Adoptable World",
     facts |-> <<"Part of the Keeleco(R) family: made using **100% recycled polyester**.",
                "Designed as a character-led animal collection with the Keeleco eco story highlighted on hangtags.">>],
    [key |-> "keeleco arctic & sealife", title |-> "Keeleco Arctic & Sealife",
     facts |-> <<"Part of Keeleco(R): made using **100% recycled polyester**.",
                "Arctic and sea-life themed characters with Keeleco eco labelling.">>],
    [key |-> "keeleco baby", title |-> "Keeleco Baby",
     facts |-> <<"Keeleco(R) baby-themed collection made using **100% recycled polyester**.",
                "Designed for gentle gifting and early-years appeal while keeping the Keeleco eco materials story.">>],
    [key |-> "keeleco botanical garden", title |-> "Keeleco Botanical Garden",
     facts |-> <<"Part of Keeleco(R): made using **100% recycled polyester**.",
                "Botanical/plant-inspired characters within the Keeleco eco range.">>],
    [key |-> "keeleco british wildlife & farm", title |-> "Keeleco British Wildlife & Farm",
     facts |-> <<"Part of Keeleco(R): made using **100% recycled polyester**.",
                "British breakup: wildlife and farm themed characters, with Keeleco eco labelling and FSC hangtags.">>],
    [key |-> "keeleco collectables", title |-> "Keeleco Collectables",
     facts |-> <<"Part of Keeleco(R): made using **100% recycled polyester**.",
                "Collectable-style characters with the Keeleco eco materials story.">>],
    [key |-> "keeleco dinosaurs", title |-> "Keeleco Dinosaurs",
     facts |-> <<"Part of Keeleco(R): made using **100% recycled polyester**.",
                "Dinosaur-themed characters within the Keeleco eco range.">>],
    [key |-> "keeleco enchanted world", title |-> "Keeleco Enchanted World",
     facts |-> <<"Part of Keeleco(R): made using **100% recycled polyester**.",
                "Fantasy-inspired characters with the Keeleco eco labelling.">>],
    [key |-> "keeleco handpuppets", title |-> "Keeleco Handpuppets",
     facts |-> <<"Part of Keeleco(R): made using **100% recycled polyester**.",
                "Hand puppet play format within the Keeleco eco range.">>],
    [key |-> "keeleco jungle cats", title |-> "Keeleco Jungle Cats",
     facts |-> <<"Part of Keeleco(R): made using **100% recycled polyester**.",
                "Big-cat themed characters within the Keeleco eco range.">>],
    [key |-> "keeleco monkeys & apes", title |-> "Keeleco Monkeys & Apes",
     facts |-> <<"Part of Keeleco(R): made using **100% recycled polyester**.",
                "Monkey and ape themed characters; Keeleco eco story shown on hangtags.">>],
    [key |-> "keeleco pets", title |-> "Keeleco Pets",
     facts |-> <<"Part of Keeleco(R): made using **100% recycled polyester**.",
                "Pet-themed characters within the Keeleco eco range.">>],
    [key |-> "keeleco pink", title |-> "Keeleco Pink",
     facts |-> <<"Part of Keeleco(R): made using **100% recycled polyester**.",
                "A colour-led Keeleco selection with the same eco materials story.">>],
    [key |-> "keeleco snackies", title |-> "Keeleco Snackies",
     facts |-> <<"Part of Keeleco(R): made using **100% recycled polyester**.",
                "Food/snack-inspired characters within the Keeleco eco range.">>],
    [key |-> "keeleco teddies", title |-> "Keeleco Teddies",
     facts |-> <<"Part of Keeleco(R): made using **100% recycled polyester**.",
                "Teddy-led collection with the Keeleco eco materials story.">>],
    [key |-> "keeleco wild", title |-> "Keeleco Wild",
     facts |-> <<"Part of Keeleco(R): made using **100% recycled polyester**.",
                "Wildlife-themed characters within the Keeleco eco range.">>],
    [key |-> "love to hug", title |-> "Love To Hug",
     facts |-> <<"A Keel Toys collection focused on soft, huggable plush characters.",
                "If you tell me the character/size, I can help check stock codes (if available in the Excel).">>],
    [key |-> "motsu", title |-> "Motsu",
     facts |-> <<"A Keel Toys character collection with its own distinct style and designs.",
                "If you share the exact product name, I can help find the stock code (if listed).">>],
    [key |-> "pippins", title |-> "Pippins",
     facts |-> <<"A Keel Toys collection featuring cute character-led soft toys.",
                "If you share the product name, I can look up the stock code (if present in your Excel).">>],
    [key |-> "pugsley & friends", title |-> "Pugsley & Friends",
     facts |-> <<"A Keel Toys character collection in the 'Friends' style range.",
                "If you share the specific product name, I can help locate the stock code (if listed).">>],
    [key |-> "seasonal", title |-> "Seasonal",
     facts |-> <<"Seasonal collections cover time-of-year themes (e.g., holiday gifting and seasonal characters).",
                "If you tell me which season/character, I can help with stock codes if they're in your Excel.">>],
    [key |-> "signature cuddle puppies", title |-> "Signature Cuddle Puppies",
     facts |-> <<"A Signature collection focused on puppy characters in a 'cuddle' style.",
                "Share a product name/size and I can help identify the stock code (if listed).">>],
    [key |-> "signature cuddle teddies", title |-> "Signature Cuddle Teddies",
     facts |-> <<"A Signature collection focused on teddy characters in a 'cuddle' style.",
                "Share a product name/size and I can help identify the stock code (if listed).">>],
    [key |-> "signature cuddle wild", title |-> "Signature Cuddle Wild",
     facts |-> <<"A Signature collection featuring wild-animal characters in a 'cuddle' style.",
                "Share a product name/size and I can help identify the stock code (if listed).">>],
    [key |-> "signature forever puppies", title |-> "Signature Forever Puppies",
     facts |-> <<"A Signature collection focused on puppy characters in the 'Forever Puppies' line.",
                "Share a product name/size and I can help identify the stock code (if listed).">>],
    [key |-> "souvenir", title |-> "Souvenir",
     facts |-> <<"A collection designed for gift/souvenir-style plush items.",
                "If you provide the product name or a code, I can help confirm stock code details (if listed).">>],
    [key |-> "accessories", title |-> "Accessories",
     facts |-> <<"A product category for Keel Toys accessories.",
                "If you provide the product name, I can try to find the stock code (if listed).">>],
    [key |-> "bag charms", title |-> "Bag Charms",
     facts |-> <<"A product category featuring bag charm items.",
                "If you provide the product name, I can try to find the stock code (if listed).">>],
    [key |-> "bakery", title |-> "Bakery",
     facts |-> <<"A product category featuring bakery-themed items.",
                "If you provide the product name, I can try to find the stock code (if listed).">>],
    [key |-> "bobballs", title |-> "Bobballs",
     facts |-> <<"A product category under Keel Toys' product listings.",
                "If you provide the product name, I can try to find the stock code (if listed).">>],
    [key |-> "cafe cute", title |-> "Cafe Cute",
     facts |-> <<"A product category under Keel Toys' product listings.",
                "If you provide the product name, I can try to find the stock code (if listed).">>]
  >>

\* FAQ, in the order of the table
FAQ ==
  <<
    [question |-> "tell me about keel toys",
     answer |-> "Keel Toys is a family-run UK soft toy company founded in 1947. Since 1988, we've focused on developing our own-brand soft toys."],
    [question |-> "what are your opening hours",
     answer |-> "The Keel Toys office is open Monday to Friday, 9:00am-5:00pm (UK time)."],
    [question |-> "are keel toys toys safe",
     answer |-> "All Keel Toys products are designed and tested to meet UK and EU safety standards."]
  >>

\* faulty variant of INTENTS: an intent with two responses to choose from
INTENTS_two_responses ==
  <<
    [name |-> "goodbye", priority |-> 1,
     keywords |-> <<[phrase |-> "bye", weight |-> 2]>>,
     responses |-> <<"Goodbye!", "See you soon!">>]
  >>

\* Intent table, in the order of registration
INTENTS ==
  <<
    [name |-> "customer_service", priority |-> 6,
     keywords |-> <<[phrase |-> "customer service", weight |-> 6],
                    [phrase |-> "support", weight |-> 4],
                    [phrase |-> "agent", weight |-> 4],
                    [phrase |-> "human", weight |-> 4],
                    [phrase |-> "contact", weight |-> 3]>>,
     responses |-> <<"Of course! :) You can contact Keel Toys customer service here:\n" \o CUSTOMER_SERVICE_URL>>],
    [name |-> "delivery_time", priority |-> 5,
     keywords |-> <<[phrase |-> "when will it arrive", weight |-> 6],
                    [phrase |-> "when is it arriving", weight |-> 6],
                    [phrase |-> "when is it going to arrive", weight |-> 7],
                    [phrase |-> "going to arrive", weight |-> 6],
                    [phrase |-> "arrival", weight |-> 4],
                    [phrase |-> "eta", weight |-> 5],
                    [phrase |-> "estimated delivery", weight |-> 5],
                    [phrase |-> "delivery date", weight |-> 5],
                    [phrase |-> "arrive", weight |-> 3],
                    [phrase |-> "delivery", weight |-> 4],
                    [phrase |-> "where is my order", weight |-> 6],
                    [phrase |-> "track my order", weight |-> 5],
                    [phrase |-> "tracking", weight |-> 4],
                    [phrase |-> "order status", weight |-> 5],
                    [phrase |-> "dispatch", weight |-> 4],
                    [phrase |-> "shipped", weight |-> 4]>>,
     responses |-> <<DELIVERY_REPLY>>],
    [name |-> "greeting", priority |-> 2,
     keywords |-> <<[phrase |-> "hi", weight |-> 2],
                    [phrase |-> "hello", weight |-> 2],
                    [phrase |-> "hey", weight |-> 2],
                    [phrase |-> "hiya", weight |-> 2],
                    [phrase |-> "good morning", weight |-> 2],
                    [phrase |-> "good afternoon", weight |-> 2],
                    [phrase |-> "good evening", weight |-> 2]>>,
     responses |-> <<GREETING_REPLY>>],
    [name |-> "help", priority |-> 3,
     keywords |-> <<[phrase |-> "what can you do", weight |-> 6],
                    [phrase |-> "what can you help with", weight |-> 6],
                    [phrase |-> "how can you help", weight |-> 6],
                    [phrase |-> "what can i ask", weight |-> 5]>>,
     responses |-> <<HELP_OVERVIEW>>],
    [name |-> "goodbye", priority |-> 1,
     keywords |-> <<[phrase |-> "bye", weight |-> 2],
                    [phrase |-> "goodbye", weight |-> 2],
                    [phrase |-> "thanks", weight |-> 1],
                    [phrase |-> "thank you", weight |-> 1],
                    [phrase |-> "thx", weight |-> 1],
                    [phrase |-> "cheers", weight |-> 1]>>,
     responses |-> <<"Thanks for chatting with " \o COMPANY_NAME \o "! Have a lovely day :)">>],
    [name |-> "invoice_copy", priority |-> 6,
     keywords |-> <<[phrase |-> "invoice", weight |-> 5],
                    [phrase |-> "last invoice", weight |-> 7],
                    [phrase |-> "copy of my invoice", weight |-> 7],
                    [phrase |-> "invoice copy", weight |-> 6],
                    [phrase |-> "invoice history", weight |-> 6],
                    [phrase |-> "past invoice", weight |-> 6],
                    [phrase |-> "order invoice", weight |-> 5],
                    [phrase |-> "download invoice", weight |-> 6]>>,
     responses |-> <<"To get a copy of an invoice, please use your trade account area (Invoice History), "
                     \o "or contact customer service if you need help accessing it:\n"
                     \o CUSTOMER_SERVICE_URL>>]
  >>

(***************************************************************************)
(* Collections, FAQ and intents                                            *)
(***************************************************************************)
\* keys sorted by length, longest first (the sort is stable); the first key
\* contained in the text, 0 for None
detect_collection(cleaned_text) ==
    LET hits == {k \in 1..Len(COLLECTION_FACTS) : Contains(cleaned_text, COLLECTION_FACTS[k].key)}
    IN  IF hits = {} THEN 0
        ELSE CHOOSE k \in hits :
               \A j \in hits :
                 \/ Len(COLLECTION_FACTS[k].key) > Len(COLLECTION_FACTS[j].key)
                 \/ Len(COLLECTION_FACTS[k].key) = Len(COLLECTION_FACTS[j].key) /\ k <= j

RECURSIVE BulletLines(_, _)
BulletLines(facts, i) ==
    IF i > Len(facts) THEN ""
    ELSE "* " \o facts[i] \o (IF i < Len(facts) THEN "\n" ELSE "") \o BulletLines(facts, i + 1)

collection_reply(cleaned_text) ==
    LET k == detect_collection(cleaned_text)
    IN  IF k = 0 THEN collections_overview
        ELSE IF COLLECTION_FACTS[k].key = "keeleco" /\ is_eco_question(cleaned_text)
             THEN KEELECO_OVERVIEW
             ELSE "Here's an overview of **" \o COLLECTION_FACTS[k].title \o "**:\n"
                  \o BulletLines(COLLECTION_FACTS[k].facts, 1)

FAQ_THRESHOLD == [p |-> 55, q |-> 100]

\* faulty variant of the loop of best_faq_answer: >= written for >, so the
\* last of several entries with the best score is kept
RECURSIVE FaqScan_last_wins(_, _)
FaqScan_last_wins(q, k) ==
    IF k = 0 THEN <<0, ZeroRatio>>
    ELSE LET prev == FaqScan_last_wins(q, k - 1)
             s == similarity(q, FAQ[k].question)
         IN  IF ~RatioGT(prev[2], s) THEN <<k, s>> ELSE prev

\* the loop of best_faq_answer: <<best entry (0 for None), best_score>> after
\* the first k entries
RECURSIVE FaqScan(_, _)
FaqScan(q, k) ==
    IF k = 0 THEN <<0, ZeroRatio>>
    ELSE LET prev == FaqScan(q, k - 1)
             s == similarity(q, FAQ[k].question)
         IN  IF RatioGT(s, prev[2]) THEN <<k, s>> ELSE prev

best_faq_answer(user_text) ==
    LET r == FaqScan(clean_text(user_text), Len(FAQ))
    IN  IF RatioGE(r[2], FAQ_THRESHOLD.p, FAQ_THRESHOLD.q) /\ r[1] # 0
        THEN Some(FAQ[r[1]].answer) ELSE None

RECURSIVE KeywordSum(_, _, _)
KeywordSum(keywords, cleaned_text, k) ==
    IF k > Len(keywords) THEN 0
    ELSE (IF Contains(cleaned_text, keywords[k].phrase) THEN keywords[k].weight ELSE 0)
         + KeywordSum(keywords, cleaned_text, k + 1)

intent_score(intent, cleaned_text) == KeywordSum(intent.keywords, cleaned_text, 1)

\* order of str: code points of the characters used in intent names
NameChars == "_abcdefghijklmnopqrstuvwxyz"
CharRank(c) == CHOOSE k \in 1..Len(NameChars) : SubSeq(NameChars, k, k) = c
RECURSIVE StrLessFrom(_, _, _)
StrLessFrom(a, b, i) ==
    IF i > Len(b) THEN FALSE
    ELSE IF i > Len(a) THEN TRUE
    ELSE IF Ch(a, i) = Ch(b, i) THEN StrLessFrom(a, b, i + 1)
    ELSE CharRank(Ch(a, i)) < CharRank(Ch(b, i))
StrLess(a, b) == StrLessFrom(a, b, 1)

\* (priority, s, name) tuples compared as Python compares tuples
TupleLess(x, y) ==
    \/ x.priority < y.priority
    \/ x.priority = y.priority /\ x.s < y.s
    \/ x.priority = y.priority /\ x.s = y.s /\ StrLess(x.name, y.name)

\* scored.sort(reverse=True); scored[0][2]: index of the greatest tuple, 0 for None
pick_intent(cleaned_text) ==
    LET scored == {k \in 1..Len(INTENTS) : intent_score(INTENTS[k], cleaned_text) > 0}
        tup(k) == [priority |-> INTENTS[k].priority,
                   s |-> intent_score(INTENTS[k], cleaned_text),
                   name |-> INTENTS[k].name]
    IN  IF scored = {} THEN 0
        ELSE CHOOSE k \in scored : \A j \in scored : j = k \/ TupleLess(tup(j), tup(k))

(***************************************************************************)
(* Inputs: the catalog rows the spreadsheet may hold and the messages a   *)
(* user may type                                                           *)
(***************************************************************************)
\* longest catalog loaded
MaxRows == 4

RowPool ==
    {[product_name |-> "Polar Bear Plush 20cm", stock_code |-> "PB1001"],
     [product_name |-> "polar bear plush 30cm", stock_code |-> " pb1002 "],
     [product_name |-> " Brown Bear 25cm ", stock_code |-> "BB25"],
     [product_name |-> "Keeleco Teddy", stock_code |-> "PB1001"],
     [product_name |-> "", stock_code |-> "ZZ99"]}

\* every list of distinct rows of at most MaxRows rows
Catalogs ==
    UNION {{c \in [1..n -> RowPool] : \A i, j \in 1..n : i # j => c[i] # c[j]}
           : n \in 0..MaxRows}

Messages ==
    {"", "   ",
     "my email is a@b.com", "my order 123456 hasn't arrived", "order 2 to 12 park road",
     "hello there", "what can you do", "thanks, bye", "tell me about keel toys",
     "1", "2", "3", " polar bear plush 30cm ",
     "minimum order value?", "min order pb1001", "min order xx99", "moq for sku 2",
     "PB1001", "what is zz99?", "stock code for pb1002", "code for xx99 bear plush",
     "when will pb1001 arrive",
     "where are your toys made", "tell me about keeleco", "sku for keeleco teddy",
     "do you have pippins", "where is my order",
     "sku", "sku for teddy", "stock code for polar bear plush 20cm", "sku bear plush",
     "sku bear 25cm", "sku brown bear fluffy grizzly",
     "tell me about keeleco dinosaurs", "when does the minimum order apply",
     "THIS IS WRONG!!", "this is wrong", "sku eco plush 30cm"}

\* the texts that reach respond
Texts == {Strip(m) : m \in Messages} \ {""}

(***************************************************************************)
(* The functions of the message text alone are pure; their values on the  *)
(* texts are tabulated once.  A field holds the value of the function of  *)
(* the same name, on user_text or on cleaned = clean_text(user_text) as   *)
(* respond and _handle_stock_choice_reply call it.                        *)
(***************************************************************************)
\* re.search(r"\b([1-3])\b", t): the digit of the leftmost match, 0 without one
NumericChoice(t) ==
    LET hits == {i \in 1..Len(t) : /\ Ch(t, i) \in {"1", "2", "3"}
                                   /\ Boundary(t, i) /\ Boundary(t, i + 1)}
    IN  IF hits = {} THEN 0
        ELSE LET i == CHOOSE k \in hits : \A j \in hits : k <= j
             IN  CHOOSE d \in 1..3 : ToString(d) = Ch(t, i)

TextFacts ==
    [user_text \in Texts |->
       LET cleaned == clean_text(user_text)
       IN  [cleaned |-> cleaned,
            contains_personal_info |-> contains_personal_info(user_text),
            extract_stock_code |-> extract_stock_code(user_text),
            is_minimum_order_question |-> is_minimum_order_question(cleaned),
            is_delivery_question |-> is_delivery_question(cleaned),
            is_eco_question |-> is_eco_question(cleaned),
            is_production_question |-> is_production_question(cleaned),
            is_stock_code_request |-> is_stock_code_request(cleaned),
            is_greeting |-> is_greeting(cleaned),
            detect_collection |-> detect_collection(cleaned),
            collection_reply |-> collection_reply(cleaned),
            best_faq_answer |-> best_faq_answer(user_text),
            pick_intent |-> pick_intent(cleaned),
            numeric_choice |-> NumericChoice(cleaned)]]

\* the strings taken from a row:
\*   name     str(row.get("product_name", "")).lower().strip()
\*   product  str(row.get("product_name", "")).strip().title()
\*   code     str(row.get("stock_code", "")).strip()
\*   ucode    str(row.get("stock_code", "")).upper().strip()
RowText ==
    [row \in RowPool |->
       [name |-> Strip(Lower(row.product_name)),
        product |-> Title(Strip(row.product_name)),
        code |-> Strip(row.stock_code),
        ucode |-> Strip(Upper(row.stock_code))]]

\* similarity(normalize_for_product_match(query), name of the row)
QuerySimilarity ==
    [query \in Texts, row \in RowPool |->
       similarity(normalize_for_product_match(query), RowText[row].name)]

(***************************************************************************)
(* Stock resolver.  The pending state is the record                       *)
(* [lookup, choices, query] of the three PENDING_STOCK_* globals; a       *)
(* catalog row is a record [product_name, stock_code].                    *)
(***************************************************************************)
limit == 3

\* faulty variant of _clear_pending_stock: only the flag is reset
_clear_pending_stock_flag_only(st) == [st EXCEPT !.lookup = FALSE]

_clear_pending_stock(st) == [lookup |-> FALSE, choices |-> <<>>, query |-> ""]

\* scored list of _top_stock_candidates before the sort: the indices of the
\* rows with a product name, in catalog order
Scored(rows) == {i \in 1..Len(rows) : RowText[rows[i]].name # ""}

\* faulty variant of _top_stock_candidates: the sort is left out, the first
\* rows with a name are taken in catalog order
_top_stock_candidates_unsorted(query, rows, lim) ==
    LET idx == Scored(rows)
        before(i) == Cardinality({j \in idx : j < i})
        n == Min2(lim, Cardinality(idx))
    IN  [k \in 1..n |-> LET i == CHOOSE j \in idx : before(j) = k - 1
                        IN  [score |-> QuerySimilarity[query, rows[i]], row |-> rows[i]]]

\* faulty variant of _top_stock_candidates: the sorted list is not cut to
\* the limit
_top_stock_candidates_uncut(query, rows, lim) ==
    LET sorted(idx, sc) ==
          LET before(i) == Cardinality({j \in idx : \/ RatioGT(sc[j], sc[i])
                                                    \/ (sc[j].num * sc[i].den = sc[i].num * sc[j].den
                                                        /\ j < i)})
          IN  [k \in 1..Cardinality(idx) |-> LET i == CHOOSE j \in idx : before(j) = k - 1
                                             IN  [score |-> sc[i], row |-> rows[i]]]
    IN  sorted(Scored(rows), [i \in Scored(rows) |-> QuerySimilarity[query, rows[i]]])

\* stable sort, highest score first, cut to the limit: a sequence of
\* [score, row]
_top_stock_candidates(query, rows, lim) ==
    LET sorted(idx, sc) ==
          LET \* number of entries sorted before entry i
              before(i) == Cardinality({j \in idx : \/ RatioGT(sc[j], sc[i])
                                                    \/ (sc[j].num * sc[i].den = sc[i].num * sc[j].den
                                                        /\ j < i)})
              n == Min2(lim, Cardinality(idx))
          IN  [k \in 1..n |-> LET i == CHOOSE j \in idx : before(j) = k - 1
                              IN  [score |-> sc[i], row |-> rows[i]]]
    IN  sorted(Scored(rows), [i \in Scored(rows) |-> QuerySimilarity[query, rows[i]]])

StockAnswer(row) ==
    "The stock code for **" \o RowText[row].product \o "** is **" \o RowText[row].code \o "**."

RECURSIVE OfferLines(_, _)
OfferLines(choices, i) ==
    IF i > Len(choices) THEN ""
    ELSE "\n" \o ToString(i) \o ". **" \o RowText[choices[i]].product
         \o "** (stock code **" \o RowText[choices[i]].code \o "**)"
         \o OfferLines(choices, i + 1)

_offer_stock_choices(choices) == OFFER_HEADER \o OfferLines(choices, 1)

\* results of calls: exc is "" for a normal return, else the exception raised
Return(v) == [exc |-> "", value |-> v]
Raise(e) == [exc |-> e, value |-> FALSE]

\* keelie_runtime.py has no definition of is_help_question: evaluating the
\* name raises NameError
is_help_question(text) == Raise("NameError")

\* faulty variant of ChoiceScan: a later candidate with the same score
\* replaces the best one (>= written for >)
RECURSIVE ChoiceScan_last_wins(_, _, _)
ChoiceScan_last_wins(user_text, choices, k) ==
    IF k = 0 THEN <<0, ZeroRatio>>
    ELSE LET pick(prev, s) == IF ~RatioGT(prev[2], s) THEN <<k, s>> ELSE prev
         IN  pick(ChoiceScan_last_wins(user_text, choices, k - 1),
                  QuerySimilarity[user_text, choices[k]])

\* the loop over PENDING_STOCK_CHOICES: <<best (0 for None), best_s>> after
\* the first k candidates
RECURSIVE ChoiceScan(_, _, _)
ChoiceScan(user_text, choices, k) ==
    IF k = 0 THEN <<0, ZeroRatio>>
    ELSE LET pick(prev, s) == IF RatioGT(s, prev[2]) THEN <<k, s>> ELSE prev
         IN  pick(ChoiceScan(user_text, choices, k - 1), QuerySimilarity[user_text, choices[k]])

\* [exc, ret, st]: ret is the Optional[str] returned, st the pending state left
_handle_stock_choice_reply(user_text, st) ==
    LET \* f: the detectors on the message; best: the result of the loop
        handle(f, best, cleared) ==
          LET t == f.cleaned
              help == is_help_question(t)
              m == f.numeric_choice
          IN  IF \/ f.is_minimum_order_question \/ f.is_delivery_question
                 \/ f.is_eco_question \/ f.is_production_question
              THEN [exc |-> "", ret |-> None, st |-> cleared]
              ELSE IF help.exc # ""
              THEN [exc |-> help.exc, ret |-> None, st |-> st]
              ELSE IF help.value
              THEN [exc |-> "", ret |-> None, st |-> cleared]
              ELSE IF m # 0 /\ m - 1 < Len(st.choices)
              THEN [exc |-> "", ret |-> Some(StockAnswer(st.choices[m])), st |-> cleared]
              ELSE IF best[1] # 0 /\ RatioGE(best[2], CHOICE_MIN.p, CHOICE_MIN.q)
              THEN [exc |-> "", ret |-> Some(StockAnswer(st.choices[best[1]])), st |-> cleared]
              ELSE [exc |-> "", ret |-> Some(_offer_stock_choices(st.choices)), st |-> st]
    IN  IF ~st.lookup \/ st.choices = <<>>
        THEN [exc |-> "", ret |-> None, st |-> st]
        ELSE handle(TextFacts[user_text], ChoiceScan(user_text, st.choices, Len(st.choices)),
                    _clear_pending_stock(st))

\* faulty variant of lookup_stock_code: the test for an empty catalog is
\* left out
lookup_stock_code_unguarded(user_text, st, rows) ==
    LET top == _top_stock_candidates(user_text, rows, limit)
    IN  IF top = <<>>
        THEN [reply |-> NOT_SURE_NAME, st |-> st]
        ELSE IF RatioGE(top[1].score, STOCK_HIGH.p, STOCK_HIGH.q)
        THEN [reply |-> StockAnswer(top[1].row), st |-> _clear_pending_stock(st)]
        ELSE IF RatioGE(top[1].score, STOCK_MED.p, STOCK_MED.q)
        THEN LET choices == [k \in 1..Len(top) |-> top[k].row]
             IN  [reply |-> _offer_stock_choices(choices),
                  st |-> [lookup |-> TRUE, choices |-> choices, query |-> user_text]]
        ELSE [reply |-> NOT_SURE_EXACT, st |-> _clear_pending_stock(st)]

\* [reply, st]
lookup_stock_code(user_text, st, rows) ==
    LET answer(top, cleared) ==
          IF top = <<>>
          THEN [reply |-> NOT_SURE_NAME, st |-> st]
          ELSE IF RatioGE(top[1].score, STOCK_HIGH.p, STOCK_HIGH.q)
          THEN [reply |-> StockAnswer(top[1].row), st |-> cleared]
          ELSE IF RatioGE(top[1].score, STOCK_MED.p, STOCK_MED.q)
          THEN [reply |-> _offer_stock_choices([k \in 1..Len(top) |-> top[k].row]),
                st |-> [lookup |-> TRUE, choices |-> [k \in 1..Len(top) |-> top[k].row],
                        query |-> user_text]]
          ELSE [reply |-> NOT_SURE_EXACT, st |-> cleared]
    IN  IF rows = <<>>
        THEN [reply |-> NO_STOCK_ACCESS, st |-> st]
        ELSE answer(_top_stock_candidates(user_text, rows, limit), _clear_pending_stock(st))

\* the first row whose stock code is the code, 0 without one
CodeRow(code, rows) ==
    LET c == Strip(Upper(code))
        hits == {i \in 1..Len(rows) : RowText[rows[i]].ucode = c}
    IN  IF hits = {} THEN 0 ELSE CHOOSE i \in hits : \A j \in hits : i <= j

ProductForCode(code, row) ==
    "The product with stock code **" \o Strip(Upper(code)) \o "** is **"
    \o RowText[row].product \o "**."

lookup_product_by_code(code, rows) ==
    IF rows = <<>> THEN None
    ELSE LET i == CodeRow(code, rows)
         IN  IF i = 0 THEN None ELSE Some(ProductForCode(code, rows[i]))

(***************************************************************************)
(* Core responder.  respond gives the set of possible outcomes            *)
(* [exc, reply, st] of one call (random.choice picks any response of the  *)
(* selected intent); exc is "" when the call returns reply.               *)
(***************************************************************************)
Done(reply, st) == {[exc |-> "", reply |-> reply, st |-> st]}
Raised(e, st) == {[exc |-> e, reply |-> "", st |-> st]}

\* steps 10 to 13 and the fallback
respond_tail(user_text, st) ==
    LET steps(f, cleared) ==
          LET help == is_help_question(f.cleaned)
              faq == f.best_faq_answer
              intent_name == f.pick_intent
          IN  IF help.exc # "" THEN Raised(help.exc, st)
              ELSE IF help.value THEN Done(HELP_OVERVIEW, cleared)
              ELSE IF f.is_greeting THEN Done(GREETING_REPLY, cleared)
              ELSE IF faq.some /\ faq.val # "" THEN Done(faq.val, cleared)
              ELSE IF intent_name # 0
              THEN {[exc |-> "", reply |-> response, st |-> cleared] :
                      response \in {INTENTS[intent_name].responses[i] :
                                      i \in 1..Len(INTENTS[intent_name].responses)}}
              ELSE Done(fallback_response, cleared)
    IN  steps(TextFacts[user_text], _clear_pending_stock(st))

\* faulty variant of respond_cascade: the stock-code request is served
\* ahead of the topic detectors
respond_cascade_request_first(user_text, st, rows) ==
    LET product(code) ==
          IF code.some /\ code.val # "" THEN lookup_product_by_code(code.val, rows) ELSE None
        request(found) == Done(found.reply, found.st)
        steps(f, prod, cleared) ==
          IF prod.some /\ prod.val # "" THEN Done(prod.val, cleared)
          ELSE IF f.is_stock_code_request THEN request(lookup_stock_code(user_text, st, rows))
          ELSE IF f.is_minimum_order_question THEN Done(minimum_order_response, cleared)
          ELSE IF f.is_production_question THEN Done(PRODUCTION_REPLY, cleared)
          ELSE IF f.is_eco_question THEN Done(KEELECO_OVERVIEW, cleared)
          ELSE IF f.detect_collection # 0 THEN Done(f.collection_reply, cleared)
          ELSE IF f.is_delivery_question THEN Done(DELIVERY_REPLY, cleared)
          ELSE respond_tail(user_text, st)
        with(f) == steps(f, product(f.extract_stock_code), _clear_pending_stock(st))
    IN  with(TextFacts[user_text])

\* steps 3 to 9
respond_cascade(user_text, st, rows) ==
    LET product(code) ==
          IF code.some /\ code.val # "" THEN lookup_product_by_code(code.val, rows) ELSE None
        request(found) == Done(found.reply, found.st)
        steps(f, prod, cleared) ==
          IF prod.some /\ prod.val # "" THEN Done(prod.val, cleared)
          ELSE IF f.is_minimum_order_question THEN Done(minimum_order_response, cleared)
          ELSE IF f.is_production_question THEN Done(PRODUCTION_REPLY, cleared)
          ELSE IF f.is_eco_question THEN Done(KEELECO_OVERVIEW, cleared)
          ELSE IF f.detect_collection # 0 THEN Done(f.collection_reply, cleared)
          ELSE IF f.is_delivery_question THEN Done(DELIVERY_REPLY, cleared)
          ELSE IF f.is_stock_code_request THEN request(lookup_stock_code(user_text, st, rows))
          ELSE respond_tail(user_text, st)
        with(f) == steps(f, product(f.extract_stock_code), _clear_pending_stock(st))
    IN  with(TextFacts[user_text])

\* faulty variant of respond: the pending choice is handled ahead of the
\* privacy guardrail
respond_choice_first(user_text, st, rows) ==
    LET pending == _handle_stock_choice_reply(user_text, st)
    IN  IF pending.exc # "" THEN Raised(pending.exc, pending.st)
        ELSE IF pending.ret.some /\ pending.ret.val # "" THEN Done(pending.ret.val, pending.st)
        ELSE IF TextFacts[user_text].contains_personal_info
        THEN Done(privacy_warning, _clear_pending_stock(pending.st))
        ELSE respond_cascade(user_text, pending.st, rows)

respond(user_text, st, rows) ==
    LET steps(pending) ==
          IF pending.exc # "" THEN Raised(pending.exc, pending.st)
          ELSE IF pending.ret.some /\ pending.ret.val # "" THEN Done(pending.ret.val, pending.st)
          ELSE respond_cascade(user_text, pending.st, rows)
    IN  IF TextFacts[user_text].contains_personal_info
        THEN Done(privacy_warning, _clear_pending_stock(st))
        ELSE steps(_handle_stock_choice_reply(user_text, st))

(***************************************************************************)
(* State                                                                   *)
(***************************************************************************)
VARIABLES
    STOCK_ROWS,             \* the catalog held by the module
    PENDING_STOCK_LOOKUP,
    PENDING_STOCK_CHOICES,
    PENDING_STOCK_QUERY,
    last,                   \* the last call of respond: its arguments and outcome
    helper,                 \* a helper called on its own: its name, argument and value
    page,                   \* the browser page of the widget: the window attributes read
                            \* by the runtime, the calls of keelie_send, the chat log
    STOCK_DF,               \* src/app.py: the stock codes read at import
    SESSION_STATE,          \* src/app.py: the state of every session of the server
    requests                \* src/app.py: the /chat requests received, each with the
                            \* position of its thread

vars == <<STOCK_ROWS, PENDING_STOCK_LOOKUP, PENDING_STOCK_CHOICES, PENDING_STOCK_QUERY, last,
          helper, page, STOCK_DF, SESSION_STATE, requests>>

Pending == [lookup |-> PENDING_STOCK_LOOKUP, choices |-> PENDING_STOCK_CHOICES,
            query |-> PENDING_STOCK_QUERY]

IdleState == [lookup |-> FALSE, choices |-> <<>>, query |-> ""]

Init ==
    /\ STOCK_ROWS = <<>>
    /\ PENDING_STOCK_LOOKUP = FALSE
    /\ PENDING_STOCK_CHOICES = <<>>
    /\ PENDING_STOCK_QUERY = ""
    /\ last = [called |-> FALSE, user_text |-> "", rows |-> <<>>, pre |-> IdleState,
               exc |-> "", reply |-> ""]
    /\ helper = [fn |-> "", text |-> ""]
    /\ page = [ready |-> "absent", hasRows |-> FALSE, rows |-> <<>>, sends |-> <<>>,
               status |-> FALSE, bubbles |-> <<>>]
    /\ STOCK_DF = [ok |-> FALSE, rows |-> <<>>]
    /\ SESSION_STATE = <<>>
    /\ requests = <<>>

\* what load_stock_rows_from_js leaves in STOCK_ROWS: the rows of the page,
\* or the empty list when they are missing or the promise is rejected
load_stock_rows_from_js == Catalogs

\* one Send: the message is stripped and dropped when empty, the catalog is
\* loaded when the module holds none, the reply is computed
keelie_send(m) ==
    LET msg == Strip(m)
    IN  IF msg = "" THEN UNCHANGED vars
        ELSE /\ UNCHANGED <<helper, page, STOCK_DF, SESSION_STATE, requests>>
             /\ \E rows \in (IF STOCK_ROWS = <<>> THEN load_stock_rows_from_js ELSE {STOCK_ROWS}) :
                \E out \in respond(msg, Pending, rows) :
                  /\ STOCK_ROWS' = rows
                  /\ PENDING_STOCK_LOOKUP' = out.st.lookup
                  /\ PENDING_STOCK_CHOICES' = out.st.choices
                  /\ PENDING_STOCK_QUERY' = out.st.query
                  /\ last' = [called |-> TRUE, user_text |-> msg, rows |-> rows, pre |-> Pending,
                              exc |-> out.exc, reply |-> out.reply]

Next == \E m \in Messages : keelie_send(m)

Spec == Init /\ [][Next]_vars

TypeOK ==
    /\ PENDING_STOCK_LOOKUP \in BOOLEAN
    /\ STOCK_ROWS \in Catalogs
    /\ last.exc \in {"", "NameError"}

(***************************************************************************)
(* Vocabulary of the properties.  They are stated over the last call of   *)
(* respond (its arguments and outcome, kept in last) and the pending      *)
(* state the call left.                                                    *)
(***************************************************************************)
\* the tabulated detectors on the message of the last call
Asked == TextFacts[last.user_text]

Idle == ~PENDING_STOCK_LOOKUP /\ PENDING_STOCK_CHOICES = <<>> /\ PENDING_STOCK_QUERY = ""

Returned(reply) == last.exc = "" /\ last.reply = reply

\* the message holds a stock-code pattern that is the code of a catalog row
HasCatalogCode ==
    /\ Asked.extract_stock_code.some
    /\ \E i \in 1..Len(last.rows) : RowText[last.rows[i]].ucode = Asked.extract_stock_code.val

\* one of the topic detectors of steps 4 to 8 fires on the message
TopicFires ==
    \/ Asked.is_minimum_order_question \/ Asked.is_production_question
    \/ Asked.is_eco_question \/ Asked.detect_collection # 0
    \/ Asked.is_delivery_question

\* a stock-code request made from Idle: the message holds a request phrase
\* and no rule ahead of the stock-code request in the cascade applies to it
StockRequestFromIdle ==
    /\ last.called
    /\ ~last.pre.lookup
    /\ ~Asked.contains_personal_info
    /\ ~HasCatalogCode
    /\ ~TopicFires
    /\ Asked.is_stock_code_request

\* the catalog rows of the last call that have a product name, and their
\* similarity to the product part of the message
NamedRows == {i \in 1..Len(last.rows) : RowText[last.rows[i]].name # ""}
RowScore(row) == QuerySimilarity[last.user_text, row]
BestRows == {i \in NamedRows : \A j \in NamedRows : ~RatioGT(RowScore(last.rows[j]), RowScore(last.rows[i]))}
BestAtLeast(p, q) == \E i \in BestRows : RowScore(last.rows[i]).num * q >= p * RowScore(last.rows[i]).den
BestBelow(p, q) == \E i \in BestRows : RowScore(last.rows[i]).num * q < p * RowScore(last.rows[i]).den
BestExactly(p, q) == \E i \in BestRows : RowScore(last.rows[i]).num * q = p * RowScore(last.rows[i]).den

\* line k of a numbered list of candidates
ChoiceLine(k, row) ==
    "\n" \o ToString(k) \o ". **" \o RowText[row].product
    \o "** (stock code **" \o RowText[row].code \o "**)"

\* the reply is the disambiguation list of exactly these candidates,
\* numbered from 1 in this order
ListsChoices(reply, choices) ==
    /\ StartsWith(reply, OFFER_HEADER)
    /\ \A k \in 1..Len(choices) : Contains(reply, ChoiceLine(k, choices[k]))
    /\ ~Contains(reply, "\n" \o ToString(Len(choices) + 1) \o ". **")

\* C1: whenever contains_personal_info holds of the message, from Idle or
\* from AwaitingChoice with any candidates, respond returns the fixed
\* privacy notice and leaves the pending flag false, the candidate list
\* empty and the pending query empty.
C1_PrivacyDominates ==
    (last.called /\ Asked.contains_personal_info)
        => (Returned(privacy_warning) /\ Idle)

\* a private message that also holds a digit indexing a held candidate,
\* sent while a disambiguation is open
C1_Witness ==
    /\ last.called /\ Asked.contains_personal_info
    /\ last.pre.lookup
    /\ Asked.numeric_choice \in 1..Len(last.pre.choices)
    /\ Returned(privacy_warning) /\ Idle

\* C2: respond is total: every call returns a reply and no exception
\* propagates to the caller.
C2_RespondTotal == last.called => last.exc = ""

\* the message fires no rule of the cascade that keelie_runtime.py defines
NothingFires ==
    /\ ~Asked.contains_personal_info
    /\ ~HasCatalogCode
    /\ ~TopicFires
    /\ ~Asked.is_stock_code_request
    /\ ~Asked.is_greeting
    /\ ~Asked.best_faq_answer.some
    /\ Asked.pick_intent = 0

\* C3: from Idle, a message that triggers no privacy pattern, holds no
\* catalog stock code, fires no detector or stock-code request, matches no
\* FAQ entry and scores zero for every intent gets the fallback text,
\* without an exception, and the state stays Idle.
C3_FallbackReached ==
    (last.called /\ ~last.pre.lookup /\ NothingFires)
        => (Returned(fallback_response) /\ Idle)

\* C4: after every completed call of respond the pending stock lookup is
\* set exactly when the reply returned is the numbered disambiguation list
\* of the held candidates; after every other reply the pending state is
\* cleared.
C4_PendingIffOffered ==
    (last.called /\ last.exc = "")
        => /\ PENDING_STOCK_LOOKUP => ListsChoices(last.reply, PENDING_STOCK_CHOICES)
           /\ ~PENDING_STOCK_LOOKUP => (~StartsWith(last.reply, OFFER_HEADER) /\ Idle)

\* a completed call that found a disambiguation open and answered with
\* something else than the list
C4_Witness ==
    /\ last.called /\ last.exc = ""
    /\ last.pre.lookup /\ last.pre.choices # <<>>
    /\ ~StartsWith(last.reply, OFFER_HEADER)
    /\ ~Asked.contains_personal_info
    /\ Idle

\* C5: from AwaitingChoice holding n candidates, a reply that is the digit
\* k, 1 <= k <= n, gets the stock-code answer for the k-th listed
\* candidate and the state returns to Idle.
C5_DigitSelects ==
    \A k \in 1..3 :
        (/\ last.called /\ last.pre.lookup
         /\ Len(last.pre.choices) \in 1..3
         /\ last.user_text = ToString(k) /\ k <= Len(last.pre.choices))
            => (Returned(StockAnswer(last.pre.choices[k])) /\ Idle)

\* C6: from AwaitingChoice, a message on which the minimum-order detector
\* fires and the privacy guardrail does not abandons the pending lookup:
\* the state is Idle afterwards and the reply is the minimum-order reply.
C6_MinimumOrderAbandons ==
    (/\ last.called /\ last.pre.lookup /\ last.pre.choices # <<>>
     /\ Asked.is_minimum_order_question /\ ~Asked.contains_personal_info)
        => (Returned(minimum_order_response) /\ Idle)

\* C7: from Idle with a non-empty catalog, a stock-code request whose best
\* catalog similarity s has 0.55 <= s < 0.75 leaves AwaitingChoice holding
\* min(3, number of rows with a product name) candidates, which are the
\* highest-scoring rows in descending order of similarity, and the reply
\* lists exactly those candidates numbered from 1 in that order.
C7_MediumBandOffers ==
    (/\ StockRequestFromIdle /\ last.rows # <<>>
     /\ BestAtLeast(STOCK_MED.p, STOCK_MED.q) /\ BestBelow(STOCK_HIGH.p, STOCK_HIGH.q))
        => LET held == PENDING_STOCK_CHOICES
               n == Len(held)
           IN  /\ last.exc = ""
               /\ PENDING_STOCK_LOOKUP
               /\ PENDING_STOCK_QUERY = last.user_text
               /\ n = Min2(3, Cardinality(NamedRows))
               /\ \A k \in 1..n : \E i \in NamedRows : held[k] = last.rows[i]
               /\ \A k, m \in 1..n : k # m => held[k] # held[m]
               /\ \A k \in 1..(n - 1) : ~RatioGT(RowScore(held[k + 1]), RowScore(held[k]))
               /\ \A i \in NamedRows :
                      (\A k \in 1..n : held[k] # last.rows[i])
                          => \A k \in 1..n : ~RatioGT(RowScore(last.rows[i]), RowScore(held[k]))
               /\ ListsChoices(last.reply, held)

\* a medium-band request on a catalog of four named rows, whose lowest
\* row is left out of the three candidates held
C7_Witness ==
    /\ StockRequestFromIdle
    /\ BestAtLeast(STOCK_MED.p, STOCK_MED.q) /\ BestBelow(STOCK_HIGH.p, STOCK_HIGH.q)
    /\ Cardinality(NamedRows) = 4
    /\ PENDING_STOCK_LOOKUP /\ Len(PENDING_STOCK_CHOICES) = 3
    /\ \E k \in 1..2 : RatioGT(RowScore(PENDING_STOCK_CHOICES[k]), RowScore(PENDING_STOCK_CHOICES[k + 1]))

\* C8: on a non-empty catalog lookup_stock_code stays Idle outside the
\* medium band, the thresholds being inclusive lower bounds: a best
\* similarity >= 0.75 (0.75 included) is answered with the first
\* top-scoring product and its code; a best similarity < 0.55 gets the
\* not-sure reply and no candidates are kept; exactly 0.55 is medium.
C8_ThresholdsInclusive ==
    (StockRequestFromIdle /\ NamedRows # {})
        => LET top == CHOOSE i \in BestRows : \A j \in BestRows : i <= j
           IN  /\ BestAtLeast(STOCK_HIGH.p, STOCK_HIGH.q)
                    => (Returned(StockAnswer(last.rows[top])) /\ Idle)
               /\ BestBelow(STOCK_MED.p, STOCK_MED.q)
                    => (Returned(NOT_SURE_EXACT) /\ Idle)
               /\ BestExactly(STOCK_MED.p, STOCK_MED.q)
                    => (/\ last.exc = "" /\ PENDING_STOCK_LOOKUP
                        /\ ListsChoices(last.reply, PENDING_STOCK_CHOICES))

\* a request whose best similarity is exactly 0.75, answered directly
C8_Witness ==
    /\ StockRequestFromIdle /\ NamedRows # {}
    /\ BestExactly(STOCK_HIGH.p, STOCK_HIGH.q)
    /\ \E i \in BestRows : Returned(StockAnswer(last.rows[i]))
    /\ Idle

\* C9: with an empty catalog a stock-code request gets the
\* cannot-access-stock-codes reply, which holds the customer-service URL;
\* no exception is raised and the pending flag stays false with no
\* candidates.
C9_EmptyCatalog ==
    (StockRequestFromIdle /\ last.rows = <<>>)
        => /\ Returned(NO_STOCK_ACCESS)
           /\ Contains(last.reply, CUSTOMER_SERVICE_URL)
           /\ Idle

\* "sku for teddy" sent while the page holds no rows
C9_Witness ==
    /\ last.called /\ last.user_text = "sku for teddy" /\ last.rows = <<>>
    /\ STOCK_ROWS = <<>>
    /\ StockRequestFromIdle
    /\ Returned(NO_STOCK_ACCESS) /\ Idle

\* C10: from Idle, a message holding an explicit stock-code pattern is
\* resolved by exact match of the code against the catalog: the reply
\* names the product of the first matching row, or is the
\* code-not-recognised message when no row matches; either way the call
\* completes with the state Idle.  Stated of the calls that return.
C10_CodeResolved ==
    (/\ last.called /\ last.exc = "" /\ ~last.pre.lookup
     /\ ~Asked.contains_personal_info /\ Asked.extract_stock_code.some)
        => LET code == Asked.extract_stock_code.val
               i == CodeRow(code, last.rows)
           IN  /\ Idle
               /\ i # 0 => last.reply = ProductForCode(code, last.rows[i])
               /\ i = 0 => last.reply = CODE_NOT_FOUND(code)

\* the message asks for the stock code of the row by its product name: a
\* request phrase followed by the name of the row
AsksCodeOf(text, row) ==
    \E p \in {"stock code for ", "sku for "} : Lower(text) = p \o RowText[row].name

\* C11: from Idle, a stock-code request whose product part is exactly the
\* product name of a catalog row is answered directly, not by a list of
\* candidates, and the reply holds the stock code of that row, whatever
\* words the product name contains.
C11_ExactNameAnswered ==
    \A i \in 1..Len(last.rows) :
      (/\ last.called /\ ~last.pre.lookup /\ ~Asked.contains_personal_info
       /\ RowText[last.rows[i]].name # ""
       /\ AsksCodeOf(last.user_text, last.rows[i]))
          => /\ last.exc = ""
             /\ Idle
             /\ ~StartsWith(last.reply, OFFER_HEADER)
             /\ Contains(last.reply, RowText[last.rows[i]].code)

\* a disambiguation was open when the last call was made
WasAwaitingChoice == last.called /\ last.pre.lookup /\ last.pre.choices # <<>>

\* a detector that abandons an open disambiguation fires on the message
\* (the topic detectors, the greeting detector, the help and goodbye intents)
AbandonFires ==
    \/ Asked.is_delivery_question \/ Asked.is_minimum_order_question
    \/ Asked.is_eco_question \/ Asked.is_production_question
    \/ Asked.is_greeting
    \/ (Asked.pick_intent # 0 /\ INTENTS[Asked.pick_intent].name \in {"help", "goodbye", "greeting"})

\* C12: from AwaitingChoice, a message on which another topic detector
\* fires (the privacy guardrail not firing) clears the pending state and is
\* answered by the normal cascade: the call returns, the state is Idle
\* afterwards and the reply is not the list of candidates; a greeting on
\* which no other rule fires gets the greeting reply.
C12_TopicAbandons ==
    (WasAwaitingChoice /\ ~Asked.contains_personal_info /\ AbandonFires)
        => /\ last.exc = ""
           /\ Idle
           /\ ~StartsWith(last.reply, OFFER_HEADER)
           /\ (/\ Asked.is_greeting /\ ~TopicFires
               /\ ~Asked.extract_stock_code.some /\ ~Asked.is_stock_code_request)
                  => last.reply = GREETING_REPLY

\* C13: from AwaitingChoice, a message on which no abandoning detector
\* fires, whose digit (if any) does not index a held candidate and which
\* matches no held candidate with similarity >= 0.60 gets the same numbered
\* list again, and the pending flag, candidates and query are unchanged.
C13_ReofferUnchanged ==
    (/\ WasAwaitingChoice /\ ~Asked.contains_personal_info /\ ~AbandonFires
     /\ (Asked.numeric_choice = 0 \/ Asked.numeric_choice > Len(last.pre.choices))
     /\ \A k \in 1..Len(last.pre.choices) :
           RowScore(last.pre.choices[k]).num * CHOICE_MIN.q
             < CHOICE_MIN.p * RowScore(last.pre.choices[k]).den)
        => /\ Returned(_offer_stock_choices(last.pre.choices))
           /\ ListsChoices(last.reply, last.pre.choices)
           /\ Pending = last.pre

\* a call made with no disambiguation open and the privacy guardrail silent
PlainCall == last.called /\ ~last.pre.lookup /\ ~Asked.contains_personal_info

\* the topic detectors that fire on the message, by their place in the
\* order collection/range, delivery, minimum-order, production-location,
\* sustainability, greeting
FiringTopics ==
    {n \in 1..6 :
       \/ n = 1 /\ Asked.detect_collection # 0
       \/ n = 2 /\ Asked.is_delivery_question
       \/ n = 3 /\ Asked.is_minimum_order_question
       \/ n = 4 /\ Asked.is_production_question
       \/ n = 5 /\ Asked.is_eco_question
       \/ n = 6 /\ Asked.is_greeting}

TopicReply(n) ==
    CASE n = 1 -> Asked.collection_reply
      [] n = 2 -> DELIVERY_REPLY
      [] n = 3 -> minimum_order_response
      [] n = 4 -> PRODUCTION_REPLY
      [] n = 5 -> KEELECO_OVERVIEW
      [] n = 6 -> GREETING_REPLY

\* C14: when more than one topic detector fires on a message (privacy
\* guardrail silent, no disambiguation pending), respond returns the reply
\* of the detector that is first in the order collection/range, delivery,
\* minimum-order, production-location, sustainability, greeting, and the
\* pending stock state is clear afterwards.
C14_CanonicalOrder ==
    (PlainCall /\ Cardinality(FiringTopics) > 1)
        => \E n \in FiringTopics :
             /\ \A m \in FiringTopics : n <= m
             /\ Returned(TopicReply(n))
             /\ Idle

\* the collection keys contained in the message that are the longest such
LongestKeys ==
    {k \in 1..Len(COLLECTION_FACTS) :
       /\ Contains(Asked.cleaned, COLLECTION_FACTS[k].key)
       /\ \A j \in 1..Len(COLLECTION_FACTS) :
            Contains(Asked.cleaned, COLLECTION_FACTS[j].key)
              => Len(COLLECTION_FACTS[j].key) <= Len(COLLECTION_FACTS[k].key)}

\* C15: when the eco detector fires on a message that also names a specific
\* sub-collection (a collection key other than the range name "keeleco"),
\* respond returns the fact block of the collection with the longest key
\* contained in the message, not the sustainability overview.
C15_SubCollectionWins ==
    (/\ PlainCall /\ Asked.is_eco_question
     /\ ~Asked.extract_stock_code.some
     /\ ~Asked.is_minimum_order_question /\ ~Asked.is_production_question
     /\ \E k \in LongestKeys : COLLECTION_FACTS[k].key # "keeleco")
        => /\ last.exc = ""
           /\ last.reply # KEELECO_OVERVIEW
           /\ \E k \in LongestKeys :
                last.reply = "Here's an overview of **" \o COLLECTION_FACTS[k].title \o "**:\n"
                             \o BulletLines(COLLECTION_FACTS[k].facts, 1)

\* the raw message shows frustration by its punctuation
Frustrated(text) == Contains(text, "??") \/ Contains(text, "!!")

\* C16: the session counts frustration strikes: a frustrated message
\* clears the pending stock state and is answered with the clarifying
\* prompt, and when the next message is a near-duplicate of it (the same
\* normalized text) that second message is answered too, with a different
\* reply, the escalation message.
C16_SecondStrikeEscalates ==
    [][(/\ last.called /\ last'.called
        /\ Frustrated(last.user_text)
        /\ ~TextFacts[last.user_text].contains_personal_info
        /\ TextFacts[last'.user_text].cleaned = TextFacts[last.user_text].cleaned)
          => /\ last.exc = "" /\ Idle
             /\ last'.exc = "" /\ Idle'
             /\ last'.reply # last.reply]_vars

(***************************************************************************)
(* The helpers called on their own.  clean_text, best_faq_answer and      *)
(* pick_intent are functions of the text alone: a call takes a text and   *)
(* leaves the value of the helper on it.                                   *)
(***************************************************************************)
\* longest raw text given to clean_text
MaxLen == 4

\* raw texts put to clean_text: every text of at most MaxLen characters
\* that are a lower-case or an upper-case letter, a digit, one of the two
\* kept signs, one of two signs that are not kept, or one of two whitespaces
CleanInputs ==
    LET chars == {"a", "B", "7", "&", "-", "_", "!", " ", "\t"}
        RECURSIVE UpTo(_)
        UpTo(n) == IF n = 0 THEN {""}
                   ELSE LET shorter == UpTo(n - 1)
                        IN  shorter \cup {s \o c : s \in shorter, c \in chars}
    IN  UpTo(MaxLen)

\* texts put to the FAQ: the beginnings and ends of the canonical questions,
\* and texts at, just under and far from the threshold
FaqInputs ==
    UNION {{SubSeq(FAQ[k].question, 1, n) : n \in 1..Len(FAQ[k].question)}
           \cup {SubSeq(FAQ[k].question, n, Len(FAQ[k].question)) : n \in 1..Len(FAQ[k].question)}
           : k \in 1..Len(FAQ)}
    \cup {"keel toys", "Tell me about KEEL TOYS!", "tell me abozzzzzz", "tell me abozzzzzzz",
          "opening hours", "zzz", "are toys safe"}

\* normalized texts put to the intent scorer: one or two keyword phrases of
\* the table, and texts with three
IntentInputs ==
    LET phrases == UNION {{INTENTS[k].keywords[i].phrase : i \in 1..Len(INTENTS[k].keywords)}
                          : k \in 1..Len(INTENTS)}
    IN  phrases \cup {p \o " " \o q : p, q \in phrases}
        \cup {"customer service agent order invoice", "support agent contact invoice copy",
              "where are your toys made"}

\* longest text of the pairs put to similarity
MaxSimLen == 3

\* pairs of texts put to similarity: every pair of texts of at most
\* MaxSimLen of three letters, and pairs of words
SimilarityInputs ==
    LET chars == {"x", "y", "z"}
        RECURSIVE UpTo(_)
        UpTo(n) == IF n = 0 THEN {""}
                   ELSE LET shorter == UpTo(n - 1)
                        IN  shorter \cup {s \o c : s \in shorter, c \in chars}
        words == {"tide", "diet", "polar bear", "bear polar"}
    IN  (UpTo(MaxSimLen) \X UpTo(MaxSimLen)) \cup (words \X words)

\* the parts of the texts put to contains_personal_info.  A text is a
\* lead and a body: a lead with or without a cue word; a body with a
\* pattern that is sensitive on its own, with a reference that is
\* sensitive next to a cue word, with a reference that holds its cue word,
\* or with neither
PrivacyParts ==
    [cue     |-> {"my order ", "tracking for ", "Delivery of ", "return "},
     plain   |-> {"", "hello ", "i want to buy "},
     always  |-> {"a@b.com", "Jo.Bloggs+toys@keel-toys.co.uk", "07123 456789",
                  "+44 20 7946 0958", "sw1a 1aa", "M1 1AE", "12 park road", "12A High St"},
     ref     |-> {"123456", "ab12cd34ef", "1Z12345678", "no#AB-123", "inv 12345", "po 1234"},
     cuedref |-> {"sales order: 9876", "order #12345", "invoice: AB-1234"},
     neither |-> {"there", "12345", "abc123def", "12 bears", "park road", "a@b", "1234 567",
                  "AB-123", "inv 1234"}]

PrivacyInputs ==
    {l \o b : l \in PrivacyParts.cue \cup PrivacyParts.plain, b \in PrivacyParts.always \cup PrivacyParts.ref \cup PrivacyParts.cuedref \cup PrivacyParts.neither}
    \cup {"", " ", " \t ", "my order 123456 hasn't arrived", "my email is a@b.com", "hello there"}

HelperInit ==
    /\ STOCK_ROWS = <<>>
    /\ PENDING_STOCK_LOOKUP = FALSE
    /\ PENDING_STOCK_CHOICES = <<>>
    /\ PENDING_STOCK_QUERY = ""
    /\ last = [called |-> FALSE, user_text |-> "", rows |-> <<>>, pre |-> IdleState,
               exc |-> "", reply |-> ""]
    /\ helper \in {[fn |-> "", text |-> t] :
                        t \in CleanInputs \cup FaqInputs \cup IntentInputs \cup PrivacyInputs}
                  \cup {[fn |-> "", text |-> p[1], other |-> p[2]] : p \in SimilarityInputs}
    /\ page = [ready |-> "absent", hasRows |-> FALSE, rows |-> <<>>, sends |-> <<>>,
               status |-> FALSE, bubbles |-> <<>>]
    /\ STOCK_DF = [ok |-> FALSE, rows |-> <<>>]
    /\ SESSION_STATE = <<>>
    /\ requests = <<>>

call_clean_text ==
    /\ helper.fn = "" /\ helper.text \in CleanInputs
    /\ helper' = [fn |-> "clean_text", text |-> helper.text,
                  value |-> clean_text(helper.text)]
    /\ UNCHANGED <<STOCK_ROWS, PENDING_STOCK_LOOKUP, PENDING_STOCK_CHOICES, PENDING_STOCK_QUERY, last,
                   page, STOCK_DF, SESSION_STATE, requests>>

call_best_faq_answer ==
    /\ helper.fn = "" /\ helper.text \in FaqInputs
    /\ helper' = [fn |-> "best_faq_answer", text |-> helper.text,
                  value |-> best_faq_answer(helper.text)]
    /\ UNCHANGED <<STOCK_ROWS, PENDING_STOCK_LOOKUP, PENDING_STOCK_CHOICES, PENDING_STOCK_QUERY, last,
                   page, STOCK_DF, SESSION_STATE, requests>>

call_pick_intent ==
    /\ helper.fn = "" /\ helper.text \in IntentInputs
    /\ helper' = [fn |-> "pick_intent", text |-> helper.text,
                  value |-> pick_intent(helper.text)]
    /\ UNCHANGED <<STOCK_ROWS, PENDING_STOCK_LOOKUP, PENDING_STOCK_CHOICES, PENDING_STOCK_QUERY, last,
                   page, STOCK_DF, SESSION_STATE, requests>>

call_similarity ==
    /\ helper.fn = "" /\ "other" \in DOMAIN helper
    /\ <<helper.text, helper.other>> \in SimilarityInputs
    /\ helper' = [fn |-> "similarity", text |-> helper.text, other |-> helper.other,
                  value |-> similarity(helper.text, helper.other)]
    /\ UNCHANGED <<STOCK_ROWS, PENDING_STOCK_LOOKUP, PENDING_STOCK_CHOICES, PENDING_STOCK_QUERY, last,
                   page, STOCK_DF, SESSION_STATE, requests>>

call_contains_personal_info ==
    /\ helper.fn = "" /\ "other" \notin DOMAIN helper /\ helper.text \in PrivacyInputs
    /\ helper' = [fn |-> "contains_personal_info", text |-> helper.text,
                  value |-> contains_personal_info(helper.text)]
    /\ UNCHANGED <<STOCK_ROWS, PENDING_STOCK_LOOKUP, PENDING_STOCK_CHOICES, PENDING_STOCK_QUERY, last,
                   page, STOCK_DF, SESSION_STATE, requests>>

HelperNext ==
    \/ call_clean_text \/ call_best_faq_answer \/ call_pick_intent \/ call_similarity
    \/ call_contains_personal_info

HelperSpec == HelperInit /\ [][HelperNext]_vars

\* the score of an intent on the text of the call: its priority times the
\* sum of the weights of its phrases present in the text
PresentWeight(k) ==
    LET kw == INTENTS[k].keywords
        present == {i \in 1..Len(kw) : Contains(helper.text, kw[i].phrase)}
        RECURSIVE Sum(_)
        Sum(S) == IF S = {} THEN 0
                  ELSE LET i == CHOOSE x \in S : TRUE IN kw[i].weight + Sum(S \ {i})
    IN  Sum(present)
Score(k) == INTENTS[k].priority * PresentWeight(k)

\* C17: on every text, the intent scorer returns an intent with a phrase
\* present in the text whose priority times the sum of the weights of its
\* present phrases is the greatest of all intents, and returns no intent
\* exactly when no phrase of any intent is present.
C17_MaximalScore ==
    helper.fn = "pick_intent"
        => LET k == helper.value
           IN  /\ k = 0 <=> \A j \in 1..Len(INTENTS) : PresentWeight(j) = 0
               /\ k # 0 => /\ PresentWeight(k) > 0
                           /\ \A j \in 1..Len(INTENTS) : Score(j) <= Score(k)

\* C18: when several intents obtain the same score on a text, the one
\* registered first in the intent table is selected: no intent ahead of
\* the selected one in the table has the score of the selected one.
C18_FirstRegisteredWins ==
    (helper.fn = "pick_intent" /\ helper.value # 0)
        => \A j \in 1..(helper.value - 1) : Score(j) # Score(helper.value)

\* similarity of the normalized text of the call to the canonical question
\* of FAQ entry k, and its comparison with the threshold 0.55
FaqSim(k) == similarity(clean_text(helper.text), FAQ[k].question)
FaqSimAtLeast(k, p, q) == FaqSim(k).num * q >= p * FaqSim(k).den
\* the entries no other entry is more similar than
FaqBest ==
    {k \in 1..Len(FAQ) :
       \A j \in 1..Len(FAQ) : FaqSim(j).num * FaqSim(k).den <= FaqSim(k).num * FaqSim(j).den}

\* C19: best_faq_answer returns the answer of the FAQ entry whose question
\* is the most similar to the normalized text, the first of them when
\* several are, when that similarity is at least 0.55, and no answer when
\* it is below 0.55.
C19_BestFaqAnswer ==
    helper.fn = "best_faq_answer"
        => LET first == CHOOSE k \in FaqBest : \A j \in FaqBest : k <= j
           IN  IF FaqSimAtLeast(first, 55, 100)
               THEN helper.value = Some(FAQ[first].answer)
               ELSE helper.value = None

\* two entries tie for the best similarity, which is at least 0.55, and
\* the answer of the first was returned
C19_Witness ==
    /\ helper.fn = "best_faq_answer"
    /\ Cardinality(FaqBest) > 1
    /\ \A k \in FaqBest : FaqSimAtLeast(k, 55, 100)
    /\ helper.value = Some(FAQ[1].answer)

\* C20: clean_text is idempotent, clean_text(clean_text(x)) = clean_text(x)
\* for every text x, and its value holds only lower-case letters, digits,
\* '&', '-' and single spaces, none of them leading or trailing.
C20_CleanTextIdempotent ==
    helper.fn = "clean_text"
        => LET v == helper.value
           IN  /\ clean_text(v) = v
               /\ \A i \in 1..Len(v) :
                    /\ Ch(v, i) \in LowerLetters \cup Digits \cup {"&", "-", " "}
                    /\ Ch(v, i) = " " => (i > 1 /\ i < Len(v) /\ Ch(v, i + 1) # " ")

\* a text with an upper-case letter and a character that is not kept was
\* normalized to two words with one space between them
C20_Witness ==
    /\ helper.fn = "clean_text"
    /\ \E i \in 1..Len(helper.text) : Ch(helper.text, i) \in UpperLetters
    /\ \E i \in 1..Len(helper.text) : Ch(helper.text, i) \notin CleanAllowed \cup UpperLetters
    /\ Contains(helper.value, " ")

\* C21: the similarity of a pair of texts is the similarity of the pair
\* turned round, and the similarity of a text to itself is 1.
C21_SymmetricReflexive ==
    helper.fn = "similarity" =>
        LET back == similarity(helper.other, helper.text)
        IN  /\ helper.value.num * back.den = back.num * helper.value.den
            /\ helper.text = helper.other => helper.value.num = helper.value.den

\* the text of the call has a cue word, a pattern sensitive on its own, a
\* reference: by the parts it is made of
MadeOf(leads, bodies) == \E l \in leads, b \in bodies : helper.text = l \o b
HasCue == \/ MadeOf(PrivacyParts.cue, PrivacyParts.always \cup PrivacyParts.ref \cup PrivacyParts.cuedref \cup PrivacyParts.neither)
          \/ MadeOf(PrivacyParts.plain, PrivacyParts.cuedref)
          \/ helper.text = "my order 123456 hasn't arrived"
HasAlwaysSensitive == MadeOf(PrivacyParts.cue \cup PrivacyParts.plain, PrivacyParts.always)
                      \/ helper.text = "my email is a@b.com"
HasReference == MadeOf(PrivacyParts.cue \cup PrivacyParts.plain, PrivacyParts.ref \cup PrivacyParts.cuedref)
                \/ helper.text = "my order 123456 hasn't arrived"

\* C22: contains_personal_info is true of a text exactly when the text is
\* not blank and has a pattern sensitive on its own (email, phone-like digit
\* run, postcode, house number with a street word) or has a cue word
\* together with a reference (order, invoice, PO or SO reference, tracking
\* prefix, six digits or more, ten alphanumerics or more).
C22_PersonalInfoExactly ==
    helper.fn = "contains_personal_info" =>
        (helper.value <=> /\ Strip(helper.text) # ""
                          /\ HasAlwaysSensitive \/ (HasCue /\ HasReference))

C22_Witness ==
    /\ helper.fn = "contains_personal_info"
    /\ helper.text = "my order 123456 hasn't arrived"
    /\ helper.value

\* C25: a call of respond has one outcome only, the one observed: the
\* message, the pending state and the catalog of the call decide the reply,
\* the exception and the pending state after it; and no intent has more
\* than one response for random.choice to pick from.
C25_Deterministic ==
    /\ \A k \in 1..Len(INTENTS) : Len(INTENTS[k].responses) = 1
    /\ last.called =>
         respond(last.user_text, last.pre, last.rows)
           = {[exc |-> last.exc, reply |-> last.reply, st |-> Pending]}

\* a call on a catalog with rows that returned a reply and left a choice
\* awaited
C25_Witness ==
    /\ last.called /\ last.exc = "" /\ last.reply # ""
    /\ last.rows # <<>> /\ ~Idle

\* C27: in every state the pending flag is set exactly when candidates are
\* held; the held candidates are one to three rows of the catalog of the
\* module; and without a pending lookup no query is held.
C27_PendingWellFormed ==
    /\ PENDING_STOCK_LOOKUP <=> PENDING_STOCK_CHOICES # <<>>
    /\ PENDING_STOCK_LOOKUP => Len(PENDING_STOCK_CHOICES) \in 1..3
    /\ \A i \in 1..Len(PENDING_STOCK_CHOICES) :
         \E j \in 1..Len(STOCK_ROWS) : STOCK_ROWS[j] = PENDING_STOCK_CHOICES[i]
    /\ ~PENDING_STOCK_LOOKUP => PENDING_STOCK_QUERY = ""

\* three candidates held out of a catalog of more rows, with the message
\* that asked for them kept as the query
C27_Witness ==
    /\ PENDING_STOCK_LOOKUP /\ Len(PENDING_STOCK_CHOICES) = 3
    /\ Len(STOCK_ROWS) > 3
    /\ PENDING_STOCK_QUERY = last.user_text

\* the similarity of the message of the call to the i-th candidate held
\* when the call was made, and the candidates of greatest similarity
HeldScore(i) == QuerySimilarity[last.user_text, last.pre.choices[i]]
HeldBest ==
    {i \in 1..Len(last.pre.choices) :
       /\ HeldScore(i).num > 0
       /\ \A j \in 1..Len(last.pre.choices) : ~RatioGT(HeldScore(j), HeldScore(i))}

WouldInstall == lookup_stock_code(last.user_text, IdleState, last.rows).st.choices

\* C29: after a message processed in AwaitingChoice, the candidate list
\* held is the list held before it or no list at all.
C29_ListKeptOrDropped ==
    WasAwaitingChoice =>
        \/ PENDING_STOCK_CHOICES = last.pre.choices
        \/ PENDING_STOCK_CHOICES = <<>>

\* a stock-code request received in AwaitingChoice that fires an abandoning
\* detector and, served from Idle, would install a list other than the one
\* held: the list is dropped
C29_Witness ==
    /\ WasAwaitingChoice
    /\ Asked.is_stock_code_request /\ AbandonFires
    /\ WouldInstall # <<>> /\ WouldInstall # last.pre.choices
    /\ last.exc = "" /\ Idle

(***************************************************************************)
(* keelie_send as the page runs it.  A call runs to its first await; the  *)
(* only await that suspends it is the one on window.keelieStockReady in   *)
(* load_stock_rows_from_js, taken while the module holds no catalog       *)
(* (respond has no await of its own and runs at once).  The calls waiting *)
(* on the promise are resumed in the order they started to wait, and      *)
(* ahead of a call made after the promise has settled.                    *)
(*   page.ready    window.keelieStockReady: "absent", "pending",          *)
(*                 "resolved" or "rejected"                                *)
(*   page.hasRows, page.rows   window.keelieStockRows                      *)
(*   page.sends    the calls with a message, in the order made: the       *)
(*                 message and "awaiting", "done" or "raised"             *)
(*   page.status   the status bubble is shown                             *)
(*   page.bubbles  the chat log                                           *)
(***************************************************************************)
\* most calls of keelie_send with a message on one page
MaxSends == 3

SendInit ==
    /\ STOCK_ROWS = <<>>
    /\ PENDING_STOCK_LOOKUP = FALSE
    /\ PENDING_STOCK_CHOICES = <<>>
    /\ PENDING_STOCK_QUERY = ""
    /\ last = [called |-> FALSE, user_text |-> "", rows |-> <<>>, pre |-> IdleState,
               exc |-> "", reply |-> ""]
    /\ helper = [fn |-> "", text |-> ""]
    /\ STOCK_DF = [ok |-> FALSE, rows |-> <<>>]
    /\ SESSION_STATE = <<>>
    /\ requests = <<>>
    /\ \E ready \in {"absent", "pending", "resolved", "rejected"} :
       \E stock \in {[has |-> FALSE, rows |-> <<>>], [has |-> TRUE, rows |-> <<>>],
                     [has |-> TRUE,
                      rows |-> <<[product_name |-> "Polar Bear Plush 20cm", stock_code |-> "PB1001"],
                                 [product_name |-> "polar bear plush 30cm", stock_code |-> " pb1002 "]>>]} :
         page = [ready |-> ready, hasRows |-> stock.has, rows |-> stock.rows, sends |-> <<>>,
                 status |-> FALSE, bubbles |-> <<>>]

\* the end of the i-th call once the catalog is settled: the rows are kept,
\* the reply is computed, the status is cleared and the reply is added to
\* the log; an exception out of respond ends the call before the last two
send_answer(i, sends, bubbles, rows) ==
    \E out \in respond(sends[i].msg, Pending, rows) :
      /\ STOCK_ROWS' = rows
      /\ PENDING_STOCK_LOOKUP' = out.st.lookup
      /\ PENDING_STOCK_CHOICES' = out.st.choices
      /\ PENDING_STOCK_QUERY' = out.st.query
      /\ last' = [called |-> TRUE, user_text |-> sends[i].msg, rows |-> rows, pre |-> Pending,
                  exc |-> out.exc, reply |-> out.reply]
      /\ page' = [page EXCEPT
                    !.sends = [sends EXCEPT ![i].pc = IF out.exc = "" THEN "done" ELSE "raised"],
                    !.status = (out.exc # ""),
                    !.bubbles = IF out.exc = "" THEN Append(bubbles, [who |-> BOT_NAME, text |-> out.reply])
                                ELSE bubbles]
      /\ UNCHANGED <<helper, STOCK_DF, SESSION_STATE, requests>>

\* a call of keelie_send up to its first await, or to its end without one
send_begin(m) ==
    /\ Len(page.sends) < MaxSends
    /\ ~(page.ready \in {"resolved", "rejected"}
         /\ \E i \in 1..Len(page.sends) : page.sends[i].pc = "awaiting")
    /\ LET msg == Strip(m)
           sends == Append(page.sends, [msg |-> msg, pc |-> "awaiting"])
           bubbles == Append(page.bubbles, [who |-> "You", text |-> msg])
       IN  IF msg = "" THEN UNCHANGED vars
           ELSE IF STOCK_ROWS # <<>> THEN send_answer(Len(sends), sends, bubbles, STOCK_ROWS)
           ELSE IF page.ready = "absent"
           THEN send_answer(Len(sends), sends, bubbles, IF page.hasRows THEN page.rows ELSE <<>>)
           ELSE /\ page' = [page EXCEPT !.sends = sends, !.status = TRUE, !.bubbles = bubbles]
                /\ UNCHANGED <<STOCK_ROWS, PENDING_STOCK_LOOKUP, PENDING_STOCK_CHOICES,
                               PENDING_STOCK_QUERY, last, helper, STOCK_DF, SESSION_STATE, requests>>

\* window.keelieStockReady is resolved or rejected by the page
promise_settles ==
    /\ page.ready = "pending"
    /\ \E r \in {"resolved", "rejected"} : page' = [page EXCEPT !.ready = r]
    /\ UNCHANGED <<STOCK_ROWS, PENDING_STOCK_LOOKUP, PENDING_STOCK_CHOICES, PENDING_STOCK_QUERY,
                   last, helper, STOCK_DF, SESSION_STATE, requests>>

\* the call that has waited longest goes on after the await: the rows of the
\* page are read, the empty list on a rejected promise or without rows
send_resume ==
    /\ page.ready \in {"resolved", "rejected"}
    /\ \E i \in 1..Len(page.sends) :
         /\ page.sends[i].pc = "awaiting"
         /\ \A j \in 1..(i - 1) : page.sends[j].pc # "awaiting"
         /\ send_answer(i, page.sends, page.bubbles,
                        IF page.ready = "resolved" /\ page.hasRows THEN page.rows ELSE <<>>)

SendNext ==
    \/ \E m \in {"", "tell me about keeleco", "sku bear plush", "hello there"} : send_begin(m)
    \/ promise_settles
    \/ send_resume

\* the event loop runs a call whose await has completed
SendSpec == SendInit /\ [][SendNext]_vars /\ WF_vars(send_resume)

\* C26: every call of keelie_send with a message is answered in the end,
\* the reply added to the log and the status cleared, whether the catalog
\* load succeeds, fails or never completes.
C26_ReplyNeverBlocked ==
    \A i \in 1..MaxSends :
        (Len(page.sends) >= i) ~> (Len(page.sends) >= i /\ page.sends[i].pc = "done")

(***************************************************************************)
(* src/app.py, the Flask server.  The helpers of app.py are those of the  *)
(* runtime but for clean_text, which keeps no "&" and no "-", the list of *)
(* minimum-order triggers, the intent table and the FAQ, matched on       *)
(* TF-IDF vectors.                                                         *)
(***************************************************************************)
\* what load_stock_codes returns at import: None, no row, or rows with the
\* names lower-cased and stripped and the codes stripped
ServerCatalogs ==
    {[ok |-> FALSE, rows |-> <<>>],
     [ok |-> TRUE, rows |-> <<>>],
     [ok |-> TRUE,
      rows |-> <<[product_name |-> "polar bear plush 20cm", stock_code |-> "PB1001"],
                 [product_name |-> "polar bear plush 30cm", stock_code |-> "pb1002"]>>]}

\* the "message" values posted to /chat
ServerMessages ==
    {"", "where is my order", "min order?", "where are your toys made", "Tell me about Keeleco",
     "sku", "stock code for polar bear", " polar bear plush 30cm", "hello", "PB1001",
     "are toys safe", "zzz"}

\* the helpers of app.py on every message and catalog
AppFacts ==
    LET RECURSIVE SubFrom(_, _)
        SubFrom(t, i) ==
            IF i > Len(t) THEN ""
            ELSE (IF Ch(t, i) \in LowerLetters \cup Digits \cup WS THEN Ch(t, i) ELSE " ")
                 \o SubFrom(t, i + 1)
        \* clean_text: lower, [^a-z0-9\s] to a space, \s+ to a space, strip
        app_clean_text(text) == CollapseWS(SubFrom(Lower(text), 1))
        app_is_delivery_question(t) ==
            (Contains(t, "when") /\ AnyIn(t, DeliveryTerms)) \/ AnyIn(t, DeliveryPhrases)
        app_is_minimum_order_question(t) ==
            AnyIn(t, <<"minimum order", "minimum spend", "minimum purchase", "min order",
                       "min spend", "order minimum", "minimum order price">>)
        app_is_production_question(t) ==
            \/ AnyIn(t, ProductionPhrases)
            \/ Contains(t, "where") /\ (Contains(t, "toy") \/ Contains(t, "toys"))
                                    /\ AnyIn(t, ProductionWords)
        app_normalize_for_product_match(t) ==
            CollapseWS(StopWordSubFrom(ReplaceAllPhrases(t, JunkPhrases, 1), 1))
        \* INTENTS, in the order of the dict
        app_INTENTS ==
            <<[name |-> "customer_service", priority |-> 6,
               keywords |-> <<[phrase |-> "customer service", weight |-> 6],
                              [phrase |-> "support", weight |-> 4],
                              [phrase |-> "agent", weight |-> 4],
                              [phrase |-> "human", weight |-> 4],
                              [phrase |-> "contact", weight |-> 3]>>,
               responses |-> <<"Of course! :) You can contact Keel Toys customer service here:\n"
                               \o CUSTOMER_SERVICE_URL>>],
              [name |-> "delivery_time", priority |-> 5,
               keywords |-> <<[phrase |-> "when will it arrive", weight |-> 6],
                              [phrase |-> "when is it arriving", weight |-> 6],
                              [phrase |-> "when is it going to arrive", weight |-> 7],
                              [phrase |-> "going to arrive", weight |-> 6],
                              [phrase |-> "arrival", weight |-> 4],
                              [phrase |-> "eta", weight |-> 5],
                              [phrase |-> "estimated delivery", weight |-> 5],
                              [phrase |-> "delivery date", weight |-> 5],
                              [phrase |-> "arrive", weight |-> 3],
                              [phrase |-> "delivery", weight |-> 4],
                              [phrase |-> "where is my order", weight |-> 6],
                              [phrase |-> "track my order", weight |-> 5],
                              [phrase |-> "tracking", weight |-> 4],
                              [phrase |-> "order status", weight |-> 5],
                              [phrase |-> "dispatch", weight |-> 4],
                              [phrase |-> "shipped", weight |-> 4]>>,
               responses |-> <<DELIVERY_REPLY>>],
              [name |-> "greeting", priority |-> 1,
               keywords |-> <<[phrase |-> "hi", weight |-> 1],
                              [phrase |-> "hello", weight |-> 1],
                              [phrase |-> "hey", weight |-> 1],
                              [phrase |-> "hiya", weight |-> 1],
                              [phrase |-> "good morning", weight |-> 1],
                              [phrase |-> "good afternoon", weight |-> 1],
                              [phrase |-> "good evening", weight |-> 1]>>,
               responses |-> <<GREETING_REPLY>>],
              [name |-> "goodbye", priority |-> 1,
               keywords |-> <<[phrase |-> "bye", weight |-> 1],
                              [phrase |-> "goodbye", weight |-> 1],
                              [phrase |-> "thanks", weight |-> 1],
                              [phrase |-> "thank you", weight |-> 1],
                              [phrase |-> "thx", weight |-> 1],
                              [phrase |-> "cheers", weight |-> 1]>>,
               responses |-> <<"Thanks for chatting with " \o COMPANY_NAME
                               \o "! Have a lovely day :)">>]>>
        \* detect_intent: the responses of the first intent of greatest
        \* positive score, <<>> for None
        app_detect_intent(t) ==
            LET score(k) == app_INTENTS[k].priority * KeywordSum(app_INTENTS[k].keywords, t, 1)
                better(k, s, prev) == IF s > prev[2] THEN <<k, s>> ELSE prev
                RECURSIVE Scan(_)
                Scan(k) == IF k = 0 THEN <<0, 0>> ELSE better(k, score(k), Scan(k - 1))
                responses(best) == IF best[1] = 0 THEN <<>> ELSE app_INTENTS[best[1]].responses
            IN  responses(Scan(Len(app_INTENTS)))
        \* FAQ, in the order of the dict
        app_FAQ ==
            <<[question |-> "Tell me about Keel Toys",
               answer |-> "Keel Toys is a family-run UK soft toy company founded in 1947. Since 1988, we've focused on developing our own-brand soft toys."],
              [question |-> "What are your opening hours?",
               answer |-> "The Keel Toys office is open Monday to Friday, 9:00am-5:00pm (UK time)."],
              [question |-> "Are Keel Toys toys safe?",
               answer |-> "All Keel Toys products are designed and tested to meet UK and EU safety standards."]>>
        \* the words of the stop_words="english" list of scikit-learn that
        \* occur in the questions and in the messages
        ENGLISH_STOP_WORDS == {"me", "about", "what", "are", "your", "is", "my", "where", "for"}
        \* TfidfVectorizer(ngram_range=(1, 2), stop_words="english"): the
        \* tokens \w\w+ that are no stop words, and the pairs of neighbours
        RECURSIVE TokensFrom(_, _, _)
        TokensFrom(t, i, cur) ==
            IF i <= Len(t) /\ Ch(t, i) # " " THEN TokensFrom(t, i + 1, cur \o Ch(t, i))
            ELSE (IF Len(cur) >= 2 /\ cur \notin ENGLISH_STOP_WORDS THEN <<cur>> ELSE <<>>)
                 \o (IF i > Len(t) THEN <<>> ELSE TokensFrom(t, i + 1, ""))
        Grams(t) ==
            LET pairs(tok) == tok \o [i \in 1..(Len(tok) - 1) |-> tok[i] \o " " \o tok[i + 1]]
            IN  pairs(TokensFrom(t, 1, ""))
        Count(g, gs) == Cardinality({i \in 1..Len(gs) : gs[i] = g})
        \* idf = ln((1 + n) / (1 + df)) + 1 with n = 3, in hundredths
        idf(g, docs) ==
            LET of(df) == IF df = 1 THEN 169 ELSE IF df = 2 THEN 129 ELSE 100
            IN  of(Cardinality({k \in 1..Len(docs) : Count(g, docs[k]) > 0}))
        RECURSIVE dot(_, _, _, _)
        dot(S, a, b, docs) ==
            IF S = {} THEN 0
            ELSE LET term(g) == Count(g, a) * Count(g, b) * idf(g, docs) * idf(g, docs)
                                + dot(S \ {g}, a, b, docs)
                 IN  term(CHOOSE x \in S : TRUE)
        isqrt(x) == CHOOSE n \in 0..700 : n * n <= x /\ x < (n + 1) * (n + 1)
        \* best_faq_answer: the first question of greatest cosine, its
        \* answer when the cosine is 0.35 at least
        app_best_faq_answer(t) ==
            LET answer(idx, sim, nq, nd) ==
                    IF nq > 0 /\ 20 * sim[idx] >= 7 * nq * nd[idx]
                    THEN Some(app_FAQ[idx].answer) ELSE None
                later(k, prev, sim, nd) ==
                    IF sim[k] * nd[prev] > sim[prev] * nd[k] THEN k ELSE prev
                RECURSIVE Argmax(_, _, _)
                Argmax(k, sim, nd) ==
                    IF k = 1 THEN 1 ELSE later(k, Argmax(k - 1, sim, nd), sim, nd)
                cosine(sim, nq, nd) == answer(Argmax(Len(app_FAQ), sim, nd), sim, nq, nd)
                vectors(q, docs, vocabulary) ==
                    cosine(<<dot(vocabulary, q, docs[1], docs), dot(vocabulary, q, docs[2], docs),
                             dot(vocabulary, q, docs[3], docs)>>,
                           isqrt(dot(vocabulary, q, q, docs)),
                           <<isqrt(dot(vocabulary, docs[1], docs[1], docs)),
                             isqrt(dot(vocabulary, docs[2], docs[2], docs)),
                             isqrt(dot(vocabulary, docs[3], docs[3], docs))>>)
                fit(docs) ==
                    vectors(Grams(t), docs,
                            UNION {{docs[k][i] : i \in 1..Len(docs[k])} : k \in 1..Len(docs)})
            IN  fit(<<Grams(app_clean_text(app_FAQ[1].question)),
                      Grams(app_clean_text(app_FAQ[2].question)),
                      Grams(app_clean_text(app_FAQ[3].question))>>)
        \* lookup_stock_code
        app_lookup_stock_code(query, df) ==
            LET better(k, score, prev) == IF RatioGT(score, prev[2]) THEN <<k, score>> ELSE prev
                RECURSIVE Scan(_, _)
                Scan(k, q) ==
                    IF k = 0 THEN <<0, ZeroRatio>>
                    ELSE better(k, similarity(q, df.rows[k].product_name), Scan(k - 1, q))
                result(best) ==
                    IF 5 * best[2].num < 3 * best[2].den \/ best[1] = 0
                    THEN NOT_SURE_NAME
                    ELSE "The stock code for **" \o Title(df.rows[best[1]].product_name)
                         \o "** is **" \o Strip(df.rows[best[1]].stock_code) \o "**."
            IN  IF ~df.ok
                THEN "I can't access stock codes right now. Please contact customer service here:\n"
                     \o CUSTOMER_SERVICE_URL
                ELSE result(Scan(Len(df.rows), query))
        \* lookup_product_by_code
        app_lookup_product_by_code(code, df) ==
            LET first(c, hits) ==
                    IF ~df.ok \/ hits = {} THEN None
                    ELSE Some("The product with stock code **" \o c \o "** is **"
                              \o Title(Strip(df.rows[CHOOSE k \in hits : \A j \in hits : k <= j]
                                                .product_name))
                              \o "**.")
                match(c) == first(c, {i \in 1..Len(df.rows) : Upper(df.rows[i].stock_code) = c})
            IN  match(Strip(Upper(code)))
        facts(text, df, cleaned, code) ==
            [cleaned |-> cleaned,
             is_delivery_question |-> app_is_delivery_question(cleaned),
             is_minimum_order_question |-> app_is_minimum_order_question(cleaned),
             is_production_question |-> app_is_production_question(cleaned),
             is_eco_question |-> AnyIn(cleaned, EcoTriggers),
             is_stock_code_request |-> AnyIn(cleaned, StockCodeTriggers),
             normalize_for_product_match |-> app_normalize_for_product_match(cleaned),
             lookup_stock_code |-> app_lookup_stock_code(app_normalize_for_product_match(cleaned), df),
             extract_stock_code |-> code,
             lookup_product_by_code |-> IF code.some THEN app_lookup_product_by_code(code.val, df)
                                        ELSE None,
             detect_intent |-> app_detect_intent(cleaned),
             best_faq_answer |-> app_best_faq_answer(cleaned)]
    IN  [text \in {Strip(m) : m \in ServerMessages} \ {""}, df \in ServerCatalogs |->
           facts(text, df, app_clean_text(text), extract_stock_code(text))]

\* keelie_reply that gives the lookup up after one failed answer
app_keelie_reply_gives_up(user_input, pending, df) ==
    LET app_minimum_order_response ==
            "Our minimum order values are:\n"
            \o "* **GBP " \o ToString(MIN_ORDER_FIRST) \o "** for first-time buyers\n"
            \o "* **GBP " \o ToString(MIN_ORDER_REPEAT) \o "** for repeat buyers\n\n"
            \o "If you're unsure whether you qualify as a first-time or repeat buyer, "
            \o "our customer service team can help:\n" \o CUSTOMER_SERVICE_URL
        app_PRODUCTION_INFO ==
            "Our toys are produced across a small number of trusted manufacturing partners:\n"
            \o "* **95%** in China\n* **3%** in Indonesia\n* **2%** in Cambodia"
        ECO_INFO ==
            "We're actively working to reduce environmental impact. Here are a few examples:\n"
            \o "* **Keeleco(R)** is our **100% recycled** soft toy range - made from **100% recycled polyester** derived from plastic waste.\n"
            \o "* As a guide, around **10 recycled 500ml bottles** can produce enough fibre for an **18cm** toy.\n"
            \o "* Our **Keel logo + hangtags** are made from **FSC card** and attached with **cotton**.\n"
            \o "* **Shipping cartons** are recycled and sealed with **paper tape**.\n"
            \o "* We focus on responsible sourcing and work with suppliers that have **independent, internationally recognised social/ethical audits** in place.\n\n"
            \o "If you'd like, tell me which product/range you're interested in and I can help point you to the right place."
        app_FALLBACK ==
            "I'm not able to help with that just now. Please contact Keel Toys customer service here:\n"
            \o CUSTOMER_SERVICE_URL
        branch(f, not_sure) ==
        IF f.is_delivery_question
        THEN [reply |-> DELIVERY_REPLY, write |-> "clear"]
        ELSE IF f.is_minimum_order_question
        THEN [reply |-> app_minimum_order_response, write |-> "clear"]
        ELSE IF f.is_production_question
        THEN [reply |-> app_PRODUCTION_INFO, write |-> "clear"]
        ELSE IF f.is_eco_question
        THEN [reply |-> ECO_INFO, write |-> "clear"]
        ELSE IF pending
        THEN IF not_sure
             THEN [reply |-> "Please type the product name (e.g., \"Polar Bear Plush 20cm\").",
                   write |-> "clear"]
             ELSE [reply |-> f.lookup_stock_code, write |-> "clear"]
        ELSE IF f.is_stock_code_request
        THEN IF not_sure
             THEN [reply |-> "Sure - what's the product name?", write |-> "set"]
             ELSE [reply |-> f.lookup_stock_code, write |-> "keep"]
        ELSE IF f.extract_stock_code.some
        THEN [reply |-> IF f.lookup_product_by_code.some THEN f.lookup_product_by_code.val
                        ELSE "I couldn't find a product with the stock code **"
                             \o f.extract_stock_code.val
                             \o "**. Please check the code and try again.",
              write |-> "clear"]
        ELSE IF f.detect_intent # <<>>
        THEN [reply |-> f.detect_intent[1], write |-> "clear"]
        ELSE IF f.best_faq_answer.some
        THEN [reply |-> f.best_faq_answer.val, write |-> "clear"]
        ELSE [reply |-> app_FALLBACK, write |-> "clear"]
        lookup(f) ==
            branch(f, Contains(f.lookup_stock_code, "I'm not sure which product you mean"))
    IN  lookup(AppFacts[user_input, df])

\* keelie_reply on a message, the flag the request found in its session
\* state and the catalog: the reply and what is written to the flag
app_keelie_reply(user_input, pending, df) ==
    LET app_minimum_order_response ==
            "Our minimum order values are:\n"
            \o "* **GBP " \o ToString(MIN_ORDER_FIRST) \o "** for first-time buyers\n"
            \o "* **GBP " \o ToString(MIN_ORDER_REPEAT) \o "** for repeat buyers\n\n"
            \o "If you're unsure whether you qualify as a first-time or repeat buyer, "
            \o "our customer service team can help:\n" \o CUSTOMER_SERVICE_URL
        app_PRODUCTION_INFO ==
            "Our toys are produced across a small number of trusted manufacturing partners:\n"
            \o "* **95%** in China\n* **3%** in Indonesia\n* **2%** in Cambodia"
        ECO_INFO ==
            "We're actively working to reduce environmental impact. Here are a few examples:\n"
            \o "* **Keeleco(R)** is our **100% recycled** soft toy range - made from **100% recycled polyester** derived from plastic waste.\n"
            \o "* As a guide, around **10 recycled 500ml bottles** can produce enough fibre for an **18cm** toy.\n"
            \o "* Our **Keel logo + hangtags** are made from **FSC card** and attached with **cotton**.\n"
            \o "* **Shipping cartons** are recycled and sealed with **paper tape**.\n"
            \o "* We focus on responsible sourcing and work with suppliers that have **independent, internationally recognised social/ethical audits** in place.\n\n"
            \o "If you'd like, tell me which product/range you're interested in and I can help point you to the right place."
        app_FALLBACK ==
            "I'm not able to help with that just now. Please contact Keel Toys customer service here:\n"
            \o CUSTOMER_SERVICE_URL
        branch(f, not_sure) ==
        IF f.is_delivery_question
        THEN [reply |-> DELIVERY_REPLY, write |-> "clear"]
        ELSE IF f.is_minimum_order_question
        THEN [reply |-> app_minimum_order_response, write |-> "clear"]
        ELSE IF f.is_production_question
        THEN [reply |-> app_PRODUCTION_INFO, write |-> "clear"]
        ELSE IF f.is_eco_question
        THEN [reply |-> ECO_INFO, write |-> "clear"]
        ELSE IF pending
        THEN IF not_sure
             THEN [reply |-> "Please type the product name (e.g., \"Polar Bear Plush 20cm\").",
                   write |-> "keep"]
             ELSE [reply |-> f.lookup_stock_code, write |-> "clear"]
        ELSE IF f.is_stock_code_request
        THEN IF not_sure
             THEN [reply |-> "Sure - what's the product name?", write |-> "set"]
             ELSE [reply |-> f.lookup_stock_code, write |-> "keep"]
        ELSE IF f.extract_stock_code.some
        THEN [reply |-> IF f.lookup_product_by_code.some THEN f.lookup_product_by_code.val
                        ELSE "I couldn't find a product with the stock code **"
                             \o f.extract_stock_code.val
                             \o "**. Please check the code and try again.",
              write |-> "clear"]
        ELSE IF f.detect_intent # <<>>
        THEN [reply |-> f.detect_intent[1], write |-> "clear"]
        ELSE IF f.best_faq_answer.some
        THEN [reply |-> f.best_faq_answer.val, write |-> "clear"]
        ELSE [reply |-> app_FALLBACK, write |-> "clear"]
        lookup(f) ==
            branch(f, Contains(f.lookup_stock_code, "I'm not sure which product you mean"))
    IN  lookup(AppFacts[user_input, df])

MaxRequests == 3

\* the server after import: no session, no request, the catalog as loaded
ServerInit ==
    /\ STOCK_ROWS = <<>>
    /\ PENDING_STOCK_LOOKUP = FALSE
    /\ PENDING_STOCK_CHOICES = <<>>
    /\ PENDING_STOCK_QUERY = ""
    /\ last = [called |-> FALSE, user_text |-> "", rows |-> <<>>, pre |-> IdleState,
               exc |-> "", reply |-> ""]
    /\ helper = [fn |-> "", text |-> ""]
    /\ page = [ready |-> "absent", hasRows |-> FALSE, rows |-> <<>>, sends |-> <<>>,
               status |-> FALSE, bubbles |-> <<>>]
    /\ STOCK_DF \in ServerCatalogs
    /\ SESSION_STATE = <<>>
    /\ requests = <<>>

\* POST /chat up to the test of the flag in keelie_reply: the message and
\* the session id are read, an empty message is answered at once, get_state
\* makes the entry of the session and the thread reads the flag (pending)
chat_begin(sid, msg) ==
    LET get_state(session_id) ==
            [s \in DOMAIN SESSION_STATE \cup {session_id} |->
               IF s \in DOMAIN SESSION_STATE THEN SESSION_STATE[s]
               ELSE [PENDING_STOCK_LOOKUP |-> FALSE]]
        served == Cardinality({i \in 1..Len(requests) : requests[i].pc = "done"})
        chat(message, session_id, state) ==
           IF message = ""
           THEN /\ requests' = Append(requests,
                      [session_id |-> session_id, message |-> message, pc |-> "done",
                       pending |-> FALSE, reply |-> "Please type a message.",
                       write |-> "keep", turn |-> served + 1])
                /\ UNCHANGED SESSION_STATE
           ELSE /\ requests' = Append(requests,
                      [session_id |-> session_id, message |-> message, pc |-> "running",
                       pending |-> state[session_id].PENDING_STOCK_LOOKUP, reply |-> "",
                       write |-> "keep", turn |-> 0])
                /\ SESSION_STATE' = state
        route(session_id) == chat(Strip(msg), session_id, get_state(session_id))
    IN  /\ Len(requests) < MaxRequests
        /\ route(Strip(IF sid = "" THEN "default" ELSE sid))
        /\ UNCHANGED <<STOCK_ROWS, PENDING_STOCK_LOOKUP, PENDING_STOCK_CHOICES,
                       PENDING_STOCK_QUERY, last, helper, page, STOCK_DF>>

\* chat_end with one flag for all the sessions
chat_end_shared(i) ==
    /\ i \in 1..Len(requests)
    /\ requests[i].pc = "running"
    /\ LET served == Cardinality({j \in 1..Len(requests) : requests[j].pc = "done"})
           jsonify(r, out) ==
           /\ SESSION_STATE' =
                 IF out.write = "keep" THEN SESSION_STATE
                 ELSE [s \in DOMAIN SESSION_STATE |->
                         [PENDING_STOCK_LOOKUP |-> (out.write = "set")]]
           /\ requests' = [requests EXCEPT
                             ![i] = [r EXCEPT !.pc = "done", !.reply = out.reply,
                                              !.write = out.write, !.turn = served + 1]]
       IN  jsonify(requests[i],
                   app_keelie_reply(requests[i].message, requests[i].pending, STOCK_DF))
    /\ UNCHANGED <<STOCK_ROWS, PENDING_STOCK_LOOKUP, PENDING_STOCK_CHOICES,
                   PENDING_STOCK_QUERY, last, helper, page, STOCK_DF>>

\* the rest of keelie_reply of request i, run by its thread: the write to
\* the flag of its session, and the JSON response
chat_end(i) ==
    /\ i \in 1..Len(requests)
    /\ requests[i].pc = "running"
    /\ LET served == Cardinality({j \in 1..Len(requests) : requests[j].pc = "done"})
           jsonify(r, out) ==
           /\ SESSION_STATE' =
                 IF out.write = "keep" THEN SESSION_STATE
                 ELSE [SESSION_STATE EXCEPT
                         ![r.session_id] = [PENDING_STOCK_LOOKUP |-> (out.write = "set")]]
           /\ requests' = [requests EXCEPT
                             ![i] = [r EXCEPT !.pc = "done", !.reply = out.reply,
                                              !.write = out.write, !.turn = served + 1]]
       IN  jsonify(requests[i],
                   app_keelie_reply(requests[i].message, requests[i].pending, STOCK_DF))
    /\ UNCHANGED <<STOCK_ROWS, PENDING_STOCK_LOOKUP, PENDING_STOCK_CHOICES,
                   PENDING_STOCK_QUERY, last, helper, page, STOCK_DF>>

ServerNext ==
    \/ \E sid \in {"", " b "}, msg \in ServerMessages : chat_begin(sid, msg)
    \/ \E i \in 1..MaxRequests : chat_end(i)

ServerSpec == ServerInit /\ [][ServerNext]_vars

\* request i has run keelie_reply to its end in this step
Replied(i) ==
    /\ i \in 1..Len(requests) /\ requests[i].pc = "running"
    /\ requests'[i].pc = "done"

\* C23: session state is isolated per session: a step of the server
\* changes the pending flag of a session only when it is the end of
\* keelie_reply for a request of that very session, so that processing a
\* message of session A leaves the flag of every other session B as it was,
\* in every interleaving of the requests of A and B; and no entry is lost
C23_SessionIsolated ==
    [][\A s \in DOMAIN SESSION_STATE :
          /\ s \in DOMAIN SESSION_STATE'
          /\ SESSION_STATE'[s] # SESSION_STATE[s]
                => \E i \in 1..Len(requests) : Replied(i) /\ requests[i].session_id = s]_vars

\* a request of session "default" set its flag, a request of session "b"
\* that came later was answered after it and cleared the flag of "b", and
\* the flag of "default" is still set
C23_Witness ==
    /\ DOMAIN SESSION_STATE = {"default", "b"}
    /\ SESSION_STATE["default"].PENDING_STOCK_LOOKUP
    /\ ~SESSION_STATE["b"].PENDING_STOCK_LOOKUP
    /\ \E i, j \in 1..Len(requests) :
          /\ i < j
          /\ requests[i].session_id = "default" /\ requests[i].write = "set"
          /\ requests[j].session_id = "b" /\ requests[j].write = "clear"
          /\ requests[i].pc = "done" /\ requests[j].pc = "done"
          /\ requests[i].turn < requests[j].turn

\* C24: within one session the messages are processed in arrival order and
\* one at a time: of two requests of one session that reach keelie_reply,
\* the later one reads the pending flag only when the earlier one has been
\* answered, and is answered after it
C24_OneAtATimeInOrder ==
    \A i, j \in 1..Len(requests) :
        (/\ i < j
         /\ requests[i].session_id = requests[j].session_id
         /\ requests[i].message # "" /\ requests[j].message # "")
        => /\ requests[i].pc = "done"
           /\ requests[j].pc = "done" => requests[i].turn < requests[j].turn

\* similarity of the normalised message to the names of the loaded catalog
AppSimilarity ==
    [text \in {Strip(m) : m \in ServerMessages} \ {""}, df \in ServerCatalogs |->
       [k \in 1..Len(df.rows) |->
          similarity(AppFacts[text, df].normalize_for_product_match, df.rows[k].product_name)]]

\* the message is one of the four overriding questions
AppOverride(text) ==
    LET any(f) == \/ f.is_delivery_question \/ f.is_minimum_order_question
                  \/ f.is_production_question \/ f.is_eco_question
    IN  any(AppFacts[text, STOCK_DF])

\* a product of the catalog is similar to the message by 0.6 at least
AppLookupSucceeds(text) ==
    LET some(sims) == \E k \in DOMAIN sims : RatioGE(sims[k], 3, 5)
    IN  some(AppSimilarity[text, STOCK_DF])

\* C30: a call of keelie_reply of the server that finds PENDING_STOCK_LOOKUP
\* true clears the flag only for a delivery, minimum-order, production or
\* eco question or when the lookup succeeds (similarity >= 0.6), and then
\* answers with the stock code; every other message is answered with the
\* type-the-product-name prompt and the flag is not written, so that no
\* stock-code, intent, FAQ or fallback reply is given while pending; the
\* flag is never set by a call that found it set; and it is set only when
\* the catalog is loaded
C30_PendingUntilResolved ==
    [][\A i \in 1..Len(requests) :
          Replied(i) =>
             LET case(text, out, override, found) ==
                 /\ requests[i].pending =>
                       /\ out.write # "set"
                       /\ out.write = "clear" <=> (override \/ found)
                       /\ (~override /\ found)
                             => \E k \in 1..Len(STOCK_DF.rows) :
                                   out.reply = "The stock code for **"
                                       \o Title(STOCK_DF.rows[k].product_name) \o "** is **"
                                       \o STOCK_DF.rows[k].stock_code \o "**."
                       /\ (~override /\ ~found)
                             => /\ out.reply = "Please type the product name (e.g., \"Polar Bear Plush 20cm\")."
                                /\ SESSION_STATE' = SESSION_STATE
                 /\ out.write = "set" => STOCK_DF.ok
                 /\ \A s \in DOMAIN SESSION_STATE' :
                       SESSION_STATE'[s].PENDING_STOCK_LOOKUP => STOCK_DF.ok
             IN  case(requests[i].message, requests'[i],
                      AppOverride(requests[i].message), AppLookupSucceeds(requests[i].message))]_vars

\* in one session "sku" set the flag, "hello" found it set and was answered
\* with the prompt, and the product name found it set and was answered with
\* the stock code, which cleared the flag
C30_Witness ==
    /\ Len(requests) = 3
    /\ \A i \in 1..3 : requests[i].pc = "done" /\ requests[i].turn = i
                       /\ requests[i].session_id = "default"
    /\ requests[1].message = "sku" /\ requests[1].write = "set"
    /\ requests[2].message = "hello" /\ requests[2].pending /\ requests[2].write = "keep"
    /\ requests[2].reply = "Please type the product name (e.g., \"Polar Bear Plush 20cm\")."
    /\ requests[3].message = "polar bear plush 30cm" /\ requests[3].pending
    /\ requests[3].write = "clear"
    /\ requests[3].reply = "The stock code for **Polar Bear Plush 30Cm** is **pb1002**."
    /\ ~SESSION_STATE["default"].PENDING_STOCK_LOOKUP
====
